---- MODULE Spec2Model ----
(***************************************************************************)
(* GabLira presence / penalty coordination engine.                         *)
(*                                                                         *)
(* One device is modelled: its HomeScreen (useUserManager instance 1,      *)
(* useMonitoringSystem) and its SettingsScreen (useUserManager instance 2, *)
(* the roster and reducePenalty), both against the shared remote store     *)
(* (tables users, penalties, user_activity).  Every awaited store call is  *)
(* one step: other work may run between two awaits.                        *)
(***************************************************************************)
EXTENDS Integers, Sequences, FiniteSets, TLC

VARIABLES
  now,            \* Date.now(): wall clock in ms
  users,          \* store table users: id -> row
  penalties,      \* store table penalties: id -> row (id order = insert order)
  user_activity,  \* store table user_activity (append-only)
  cache,          \* useCache.cacheRef, per hook instance: key -> item
  deviceName,     \* useDeviceInfo.deviceName, per useUserManager instance
  currentUser,    \* useUserManager.currentUser, per hook instance
  loading,        \* useUserManager.loading, per hook instance
  mgr,            \* the initializeUser invocation in flight, per hook instance
  lastPingRef,    \* useMonitoringSystem.lastPingRef
  pingIntervalRef,  \* useMonitoringSystem.pingIntervalRef: the 30 s timer is armed
  penaltyCheckRef,  \* useMonitoringSystem.penaltyCheckRef: the 120 s timer is armed
  probe,          \* the pingServer invocation in flight
  ap,             \* the addPenalty invocation in flight, per caller
  roster,         \* SettingsScreen.users: user id -> penalty_count as listed
  red,            \* the reducePenalty invocation in flight
  increments,     \* history: penalty_count increments written, per <<user, date>>
  run,            \* history: a serialized sequence of penalty applications
  lastCall,       \* history: the last direct call of a hook function and its result
  written,        \* history: per cache key, the last direct set call
  subscriptionsRef, \* useRealtimeUpdates.subscriptionsRef, per listener
  channels,       \* the realtime client: the subscriptions that are live
  props,          \* useRealtimeUpdates props: the callbacks each listener was given
  setups,         \* setupSubscriptions runs so far, per listener
  verses,         \* store table verses
  hasSubmittedToday, \* HomeScreen.hasSubmittedToday
  verseOp,        \* HomeScreen: checkTodaySubmission / submitVerse in flight
  showUserModal,  \* SettingsScreen.showUserModal
  isMountedRef,   \* useMonitoringSystem.isMountedRef
  earlier,        \* pingServer invocations of earlier ticks that are still in flight
  statusOp,       \* the updateUserStatus invocation in flight, per hook instance
  intervals       \* the runtime's timer table: intervals armed by setInterval, per ref

listenerVars == <<subscriptionsRef, channels, props, setups>>
verseVars == <<verses, hasSubmittedToday, verseOp>>
hookVars == <<isMountedRef, earlier, statusOp, intervals>>

vars == <<pingIntervalRef, penaltyCheckRef, now, users, penalties, user_activity, cache, deviceName, currentUser,
          loading, mgr, lastPingRef, probe, ap, roster, red, increments, run,
          lastCall, written,
          listenerVars, verseVars, showUserModal, hookVars>>

----------------------------------------------------------------------------
(* Bounds of the model *)

\* 15-second clock steps the monitoring specification takes
MaxTicks == 2
\* rows the penalties table may grow to
MaxPenalties == 3
\* rows the user_activity table may grow to
MaxActivity == 1
\* ticks of earlier timer firings still in flight next to the newest one
MaxEarlier == 1
\* 15-second clock steps of the overlap specification
MaxOverlapTicks == 2
\* penalty applications of one serialized run
MaxCalls == 2

----------------------------------------------------------------------------
(* Values *)

\* SQL NULL / an unset id or timestamp (ids and timestamps are positive)
Null == 0
\* JavaScript null where an object is expected (currentUser, cached data)
NullData == [kind |-> "null"]
NoError == "ok"
PGRST116 == "PGRST116"
StoreError == "STORE_ERROR"

HomeScreen == 1
SettingsScreen == 2
Managers == {HomeScreen, SettingsScreen}

MsPerMinute == 60 * 1000
MsPerHour == 60 * MsPerMinute
MsPerDay == 24 * MsPerHour

\* The device's offset from UTC (UTC-1) and the first instant of the
\* monitoring specification: 22:29:45 local time, 23:29:45 UTC of day 2.
TzOffset == 0 - MsPerHour
StartTime == 2 * MsPerDay + 23 * MsPerHour + 29 * MsPerMinute + 45 * 1000

\* new Date().getHours() / getMinutes(): local time
getHours(t) == ((t + TzOffset) \div MsPerHour) % 24
getMinutes(t) == ((t + TzOffset) \div MsPerMinute) % 60
\* new Date().toISOString().split('T')[0]: the UTC calendar date, as a day number
toISODate(t) == t \div MsPerDay

----------------------------------------------------------------------------
(* Penalty window *)

isInPenaltyPeriod_Exclusive(t) ==
  LET currentTime == getHours(t) * 60 + getMinutes(t)
      penaltyStart == 22 * 60 + 30
      penaltyEnd == 5 * 60 + 30
  IN  currentTime > penaltyStart \/ currentTime < penaltyEnd

isInPenaltyPeriod(t) ==
  LET currentTime == getHours(t) * 60 + getMinutes(t)
      penaltyStart == 22 * 60 + 30
      penaltyEnd == 5 * 60 + 30
  IN  currentTime >= penaltyStart \/ currentTime <= penaltyEnd

----------------------------------------------------------------------------
(* Remote store queries *)

UserIds == DOMAIN users
PenaltyIds == DOMAIN penalties

\* .single(): exactly one row is the data, anything else is the "no rows" error
single(rows) ==
  IF Cardinality(rows) = 1
    THEN [data |-> CHOOSE r \in rows : TRUE, error |-> NoError]
    ELSE [data |-> Null, error |-> PGRST116]

\* penalties where user_id = uid and penalty_date = date and removed_by is null
ActivePenaltiesOn(uid, date) ==
  {p \in PenaltyIds : /\ penalties[p].user_id = uid
                      /\ penalties[p].penalty_date = date
                      /\ penalties[p].removed_by = Null}

\* penalties where user_id = uid and removed_by is null
ActivePenalties(uid) ==
  {p \in PenaltyIds : penalties[p].user_id = uid /\ penalties[p].removed_by = Null}

\* ... order by created_at desc limit 1, .single()
mostRecent(rows) ==
  IF rows = {}
    THEN [data |-> Null, error |-> PGRST116]
    ELSE [data |-> CHOOSE p \in rows :
                     \A q \in rows : penalties[q].created_at <= penalties[p].created_at,
          error |-> NoError]

\* The row a select / insert / update ... .select().single() returns
UserRow(id) ==
  [kind |-> "user", id |-> id,
   device_name |-> users[id].device_name,
   penalty_count |-> users[id].penalty_count,
   is_online |-> users[id].is_online,
   last_seen |-> users[id].last_seen]

----------------------------------------------------------------------------
(* useCache *)

RemoveKey(c, key) == [k \in DOMAIN c \ {key} |-> c[k]]

useCache_get_ExpiresAtTtl(c, key, t) ==
  IF key \notin DOMAIN c
    THEN [data |-> NullData, cache |-> c]
    ELSE IF t - c[key].timestamp >= c[key].ttl
      THEN [data |-> NullData, cache |-> RemoveKey(c, key)]
      ELSE [data |-> c[key].data, cache |-> c]

\* get: the value returned and the cache afterwards (lazy eviction)
useCache_get(c, key, t) ==
  IF key \notin DOMAIN c
    THEN [data |-> NullData, cache |-> c]
    ELSE IF t - c[key].timestamp > c[key].ttl
      THEN [data |-> NullData, cache |-> RemoveKey(c, key)]
      ELSE [data |-> c[key].data, cache |-> c]

useCache_set_KeepsAge(c, key, data, ttl, t) ==
  [k \in DOMAIN c \cup {key} |->
     IF k = key
       THEN [data |-> data,
             timestamp |-> IF key \in DOMAIN c THEN c[key].timestamp ELSE t,
             ttl |-> ttl]
       ELSE c[k]]

\* set: the cache afterwards
useCache_set(c, key, data, ttl, t) ==
  [k \in DOMAIN c \cup {key} |->
     IF k = key THEN [data |-> data, timestamp |-> t, ttl |-> ttl] ELSE c[k]]

useCache_remove(c, key) == RemoveKey(c, key)

useCache_clear(c) == [k \in {} |-> NullData]

\* cache TTLs the callers pass
UserTtl == 2 * 60 * 1000
UsersListTtl == 60 * 1000

----------------------------------------------------------------------------
(* useUserManager *)

UnknownDevice == "Unknown Device"
DeviceA == "DeviceA"
DeviceB == "DeviceB"

\* Each hook instance owns its useCache instance
UserCache(m) == IF m = HomeScreen THEN "useUserManager@HomeScreen"
                                  ELSE "useUserManager@SettingsScreen"
SettingsCache == "SettingsScreen"
\* the useCache instance of the HomeScreen itself
HomeCache == "HomeScreen"
CacheOwners == {UserCache(m) : m \in Managers} \cup {SettingsCache, HomeCache}

\* `user_${deviceName}` and 'users_list'
UserKey(name) == <<"user", name>>
UsersListKey == <<"users_list">>

MgrIdle == [pc |-> "idle", id |-> Null]
StatusIdle == [pc |-> "idle", user |-> NullData, isOnline |-> FALSE]

UsersNamed(name) == {u \in UserIds : users[u].device_name = name}

\* initializeUser up to its first await, for device name `name` and run
\* against cache c: the session state (cache, currentUser, loading, mgr)
\* after the call.
initializeUser_NoCache(m, name, c) ==
  IF name = UnknownDevice
    THEN [cache |-> c, currentUser |-> currentUser, loading |-> loading, mgr |-> mgr]
    ELSE [cache |-> c,
          currentUser |-> currentUser,
          loading |-> [loading EXCEPT ![m] = TRUE],
          mgr |-> [mgr EXCEPT ![m] = [pc |-> "fetch", id |-> Null]]]

initializeUser(m, name, c) ==
  IF name = UnknownDevice
    THEN [cache |-> c, currentUser |-> currentUser, loading |-> loading, mgr |-> mgr]
    ELSE LET got == useCache_get(c[UserCache(m)], UserKey(name), now)
             c2 == [c EXCEPT ![UserCache(m)] = got.cache]
         IN  IF got.data # NullData
               THEN [cache |-> c2,
                     currentUser |-> [currentUser EXCEPT ![m] = got.data],
                     loading |-> [loading EXCEPT ![m] = FALSE],
                     mgr |-> mgr]
               ELSE [cache |-> c2,
                     currentUser |-> currentUser,
                     loading |-> [loading EXCEPT ![m] = TRUE],
                     mgr |-> [mgr EXCEPT ![m] = [pc |-> "fetch", id |-> Null]]]

refreshUser_KeepsCache(m) == initializeUser(m, deviceName[m], cache)

\* refreshUser up to its first await: the cache entry is overwritten with
\* null (ttl 0), then initializeUser runs.
refreshUser(m) ==
  initializeUser(m, deviceName[m],
                 [cache EXCEPT ![UserCache(m)] =
                    useCache_set(@, UserKey(deviceName[m]), NullData, 0, now)])

\* The mount effect runs initializeUser
InitializeUser(m) ==
  /\ mgr[m].pc = "idle"
  /\ LET s == initializeUser(m, deviceName[m], cache)
     IN  /\ cache' = s.cache
         /\ currentUser' = s.currentUser
         /\ loading' = s.loading
         /\ mgr' = s.mgr
         /\ lastCall' = [op |-> "initializeUser", m |-> m,
                         cached |-> /\ deviceName[m] # UnknownDevice
                                    /\ s.mgr[m].pc = "idle"]
  /\ UNCHANGED <<pingIntervalRef, penaltyCheckRef, now, users, penalties, user_activity, deviceName, lastPingRef,
                 probe, ap, roster, red, increments, run, written,
                 listenerVars, verseVars, showUserModal, hookVars>>

\* useDeviceInfo resolves the device name; the mount effect runs again
GetDeviceName(m) ==
  /\ deviceName[m] = UnknownDevice
  /\ mgr[m].pc = "idle"
  /\ deviceName' = [deviceName EXCEPT ![m] = DeviceA]
  /\ LET s == initializeUser(m, DeviceA, cache)
     IN  /\ cache' = s.cache
         /\ currentUser' = s.currentUser
         /\ loading' = s.loading
         /\ mgr' = s.mgr
         /\ lastCall' = [op |-> "initializeUser", m |-> m,
                         cached |-> s.mgr[m].pc = "idle"]
  /\ UNCHANGED <<pingIntervalRef, penaltyCheckRef, now, users, penalties, user_activity, lastPingRef, probe, ap,
                 roster, red, increments, run, written,
                 listenerVars, verseVars, showUserModal, hookVars>>

\* Pull-to-refresh on the HomeScreen
RefreshUser(m) ==
  /\ mgr[m].pc = "idle"
  /\ LET s == refreshUser(m)
     IN  /\ cache' = s.cache
         /\ currentUser' = s.currentUser
         /\ loading' = s.loading
         /\ mgr' = s.mgr
  /\ UNCHANGED <<pingIntervalRef, penaltyCheckRef, now, users, penalties, user_activity, deviceName, lastPingRef,
                 probe, ap, roster, red, increments, run, lastCall, written,
                 listenerVars, verseVars, showUserModal, hookVars>>

\* The lookup by device_name returns
InitFetch(m) ==
  /\ mgr[m].pc = "fetch"
  /\ \E failed \in BOOLEAN :
       LET res == IF failed
                    THEN [data |-> Null, error |-> StoreError]
                    ELSE single(UsersNamed(deviceName[m]))
       IN  IF res.error # NoError /\ res.error # PGRST116
             THEN /\ mgr' = [mgr EXCEPT ![m] = MgrIdle]
                  /\ loading' = [loading EXCEPT ![m] = FALSE]
             ELSE /\ mgr' = [mgr EXCEPT ![m] =
                               [pc |-> IF res.data # Null THEN "update" ELSE "insert",
                                id |-> res.data]]
                  /\ UNCHANGED loading
  /\ UNCHANGED <<pingIntervalRef, penaltyCheckRef, now, users, penalties, user_activity, cache, deviceName,
                 currentUser, lastPingRef, probe, ap, roster, red, increments,
                 run, lastCall, written,
                 listenerVars, verseVars, showUserModal, hookVars>>

\* What initializeUser does with the row the store returned
ResolveUser(m, row) ==
  /\ cache' = [cache EXCEPT ![UserCache(m)] =
                 useCache_set(@, UserKey(deviceName[m]), row, UserTtl, now)]
  /\ currentUser' = [currentUser EXCEPT ![m] = row]
  /\ loading' = [loading EXCEPT ![m] = FALSE]
  /\ mgr' = [mgr EXCEPT ![m] = MgrIdle]

InitFailed_WritesCache(m) ==
  /\ mgr' = [mgr EXCEPT ![m] = MgrIdle]
  /\ loading' = [loading EXCEPT ![m] = FALSE]
  /\ cache' = [cache EXCEPT ![UserCache(m)] =
                 useCache_set(@, UserKey(deviceName[m]), NullData, UserTtl, now)]
  /\ UNCHANGED <<users, currentUser>>

\* The error is thrown: the catch block logs it, finally ends the loading
InitFailed(m) ==
  /\ mgr' = [mgr EXCEPT ![m] = MgrIdle]
  /\ loading' = [loading EXCEPT ![m] = FALSE]
  /\ UNCHANGED <<users, cache, currentUser>>

\* The update of last_seen / is_online of the existing row returns
InitUpdate(m) ==
  /\ mgr[m].pc = "update"
  /\ \/ /\ users' = [users EXCEPT ![mgr[m].id].last_seen = now,
                                  ![mgr[m].id].is_online = TRUE]
        /\ ResolveUser(m, [kind |-> "user", id |-> mgr[m].id,
                           device_name |-> users[mgr[m].id].device_name,
                           penalty_count |-> users[mgr[m].id].penalty_count,
                           is_online |-> TRUE,
                           last_seen |-> now])
     \/ InitFailed(m)
  /\ UNCHANGED <<pingIntervalRef, penaltyCheckRef, now, penalties, user_activity, deviceName, lastPingRef, probe,
                 ap, roster, red, increments, run, lastCall, written,
                 listenerVars, verseVars, showUserModal, hookVars>>

NewUserRow_Offline(name) ==
  [device_name |-> name, penalty_count |-> 0, is_online |-> FALSE, last_seen |-> now]

\* The row a successful insert of a new user stores: penalty_count takes the
\* column default
NewUserRow(name) ==
  [device_name |-> name, penalty_count |-> 0, is_online |-> TRUE, last_seen |-> now]

InitInsert_NoUniqueConstraint(m) ==
  /\ mgr[m].pc = "insert"
  /\ \/ /\ users' = Append(users, NewUserRow(deviceName[m]))
        /\ ResolveUser(m, [kind |-> "user", id |-> Len(users) + 1,
                           device_name |-> deviceName[m],
                           penalty_count |-> NewUserRow(deviceName[m]).penalty_count,
                           is_online |-> NewUserRow(deviceName[m]).is_online,
                           last_seen |-> now])
     \/ InitFailed(m)
  /\ UNCHANGED <<pingIntervalRef, penaltyCheckRef, now, penalties, user_activity, deviceName, lastPingRef, probe,
                 ap, roster, red, increments, run, lastCall, written,
                 listenerVars, verseVars, showUserModal, hookVars>>

\* The insert of a new user returns; device_name is UNIQUE
InitInsert(m) ==
  /\ mgr[m].pc = "insert"
  /\ \/ /\ UsersNamed(deviceName[m]) = {}
        /\ users' = Append(users, NewUserRow(deviceName[m]))
        /\ ResolveUser(m, [kind |-> "user", id |-> Len(users) + 1,
                           device_name |-> deviceName[m],
                           penalty_count |-> NewUserRow(deviceName[m]).penalty_count,
                           is_online |-> NewUserRow(deviceName[m]).is_online,
                           last_seen |-> now])
     \/ InitFailed(m)
  /\ UNCHANGED <<pingIntervalRef, penaltyCheckRef, now, penalties, user_activity, deviceName, lastPingRef, probe,
                 ap, roster, red, increments, run, lastCall, written,
                 listenerVars, verseVars, showUserModal, hookVars>>

\* updateUserStatus(isOnline) up to its await: nothing without a user, else
\* the update is issued
UpdateUserStatus(m, isOnline) ==
  /\ statusOp[m].pc = "idle"
  /\ statusOp' = IF currentUser[m] = NullData
                   THEN statusOp
                   ELSE [statusOp EXCEPT ![m] = [pc |-> "update",
                                                 user |-> currentUser[m],
                                                 isOnline |-> isOnline]]
  /\ lastCall' = [op |-> "updateUserStatus", m |-> m, isOnline |-> isOnline,
                  issued |-> currentUser[m] # NullData]
  /\ UNCHANGED <<pingIntervalRef, penaltyCheckRef, now, users, penalties,
                 user_activity, cache, deviceName, currentUser, loading, mgr,
                 lastPingRef, probe, ap, roster, red, increments, run, written,
                 listenerVars, verseVars, showUserModal, isMountedRef, earlier, intervals>>

userStatusUpdate_AllRows(us, id, isOnline) ==
  [u \in DOMAIN us |-> [us[u] EXCEPT !.is_online = isOnline, !.last_seen = now]]

\* The users table after the update of updateUserStatus
userStatusUpdate(us, id, isOnline) ==
  [us EXCEPT ![id].is_online = isOnline, ![id].last_seen = now]

\* The update of updateUserStatus returns: the row returned is cached for two
\* minutes and becomes currentUser; an error is thrown and caught
UpdateUserStatusReturns(m, failed) ==
  /\ statusOp[m].pc = "update"
  /\ IF failed \/ statusOp[m].user.id \notin UserIds
       THEN UNCHANGED <<users, cache, currentUser>>
       ELSE LET id == statusOp[m].user.id
                us == userStatusUpdate(users, id, statusOp[m].isOnline)
                updatedUser == [kind |-> "user", id |-> id,
                                device_name |-> us[id].device_name,
                                penalty_count |-> us[id].penalty_count,
                                is_online |-> us[id].is_online,
                                last_seen |-> us[id].last_seen]
            IN  /\ users' = us
                /\ cache' = [cache EXCEPT ![UserCache(m)] =
                               useCache_set(@, UserKey(statusOp[m].user.device_name),
                                            updatedUser, UserTtl, now)]
                /\ currentUser' = [currentUser EXCEPT ![m] = updatedUser]
  /\ statusOp' = [statusOp EXCEPT ![m] = StatusIdle]
  /\ UNCHANGED <<pingIntervalRef, penaltyCheckRef, now, penalties,
                 user_activity, deviceName, loading, mgr, lastPingRef, probe, ap,
                 roster, red, increments, run, lastCall, written,
                 listenerVars, verseVars, showUserModal, isMountedRef, earlier, intervals>>

UpdateUserStatusUpdate(m) == \E failed \in BOOLEAN : UpdateUserStatusReturns(m, failed)

----------------------------------------------------------------------------
(* useMonitoringSystem: addPenalty *)

Callers == {"pingServer", "penaltyCheck"}

ApIdle == [pc |-> "idle", user |-> NullData, today |-> Null]

Bump(f, key) ==
  [k \in DOMAIN f \cup {key} |->
     IF k = key THEN (IF key \in DOMAIN f THEN f[key] + 1 ELSE 1) ELSE f[k]]

addPenalty_NoWindowGuard(c) ==
  IF currentUser[HomeScreen] = NullData \/ ~isMountedRef
    THEN ap
    ELSE [ap EXCEPT ![c] = [pc |-> "select",
                            user |-> currentUser[HomeScreen],
                            today |-> toISODate(now)]]

\* addPenalty up to its first await: the guard, today, and the query issued.
\* The value of ap after the call by caller c.
addPenalty(c) ==
  IF currentUser[HomeScreen] = NullData \/ ~isInPenaltyPeriod(now) \/ ~isMountedRef
    THEN ap
    ELSE [ap EXCEPT ![c] = [pc |-> "select",
                            user |-> currentUser[HomeScreen],
                            today |-> toISODate(now)]]

\* addPenalty() is invoked on behalf of caller c, whatever the caller checked
CallAddPenalty(c) ==
  /\ ap[c].pc = "idle"
  /\ ap' = addPenalty(c)
  /\ lastCall' = [op |-> "addPenalty", c |-> c, issued |-> ap'[c].pc # "idle"]
  /\ UNCHANGED <<pingIntervalRef, penaltyCheckRef, now, users, penalties, user_activity, cache, deviceName, currentUser,
                 loading, mgr, lastPingRef, probe, roster, red, increments, run, written,
                 listenerVars, verseVars, showUserModal, hookVars>>

AddPenaltySelectReturns_AnyErrorIsNotFound(c, failed) ==
  /\ ap[c].pc = "select"
  /\ LET res == IF failed
                  THEN [data |-> Null, error |-> StoreError]
                  ELSE single(ActivePenaltiesOn(ap[c].user.id, ap[c].today))
     IN  ap' = IF res.data = Null
                 THEN [ap EXCEPT ![c].pc = "insert"]
                 ELSE [ap EXCEPT ![c] = ApIdle]
  /\ UNCHANGED <<pingIntervalRef, penaltyCheckRef, now, users, penalties, user_activity, cache, deviceName,
                 currentUser, loading, mgr, lastPingRef, probe, roster, red,
                 increments, run, lastCall, written,
                 listenerVars, verseVars, showUserModal, hookVars>>

\* The existence query returns (failed: with a store error): an error other
\* than "no rows" is thrown and caught; a row found ends the call; otherwise
\* the insert is issued.
AddPenaltySelectReturns(c, failed) ==
  /\ ap[c].pc = "select"
  /\ LET res == IF failed
                  THEN [data |-> Null, error |-> StoreError]
                  ELSE single(ActivePenaltiesOn(ap[c].user.id, ap[c].today))
     IN  ap' = IF res.error # NoError /\ res.error # PGRST116
                 THEN [ap EXCEPT ![c] = ApIdle]
                 ELSE IF res.data = Null
                   THEN [ap EXCEPT ![c].pc = "insert"]
                   ELSE [ap EXCEPT ![c] = ApIdle]
  /\ UNCHANGED <<pingIntervalRef, penaltyCheckRef, now, users, penalties, user_activity, cache, deviceName,
                 currentUser, loading, mgr, lastPingRef, probe, roster, red,
                 increments, run, lastCall, written,
                 listenerVars, verseVars, showUserModal, hookVars>>

AddPenaltySelect(c) == \E failed \in BOOLEAN : AddPenaltySelectReturns(c, failed)

\* The insert returns: the new row is stored and the counter update issued,
\* or the error is thrown and caught.
AddPenaltyInsertReturns(c, failed) ==
  /\ ap[c].pc = "insert"
  /\ IF failed
       THEN /\ ap' = [ap EXCEPT ![c] = ApIdle]
            /\ UNCHANGED penalties
       ELSE /\ Len(penalties) < MaxPenalties
            /\ penalties' = Append(penalties,
                                   [user_id |-> ap[c].user.id,
                                    penalty_date |-> ap[c].today,
                                    removed_by |-> Null,
                                    removed_at |-> Null,
                                    created_at |-> Len(penalties) + 1])
            /\ ap' = [ap EXCEPT ![c].pc = "update"]
  /\ UNCHANGED <<pingIntervalRef, penaltyCheckRef, now, users, user_activity, cache, deviceName, currentUser,
                 loading, mgr, lastPingRef, probe, roster, red, increments, run,
                 lastCall, written,
                 listenerVars, verseVars, showUserModal, hookVars>>

AddPenaltyInsert(c) == \E failed \in BOOLEAN : AddPenaltyInsertReturns(c, failed)

\* The counter update returns: penalty_count is written from the snapshot
\* the call started with, and, if isMountedRef is set, onPenaltyAdded
\* (HomeScreen: refreshUser) runs; or the error is thrown and caught.
AddPenaltyUpdateReturns(c, failed) ==
  /\ ap[c].pc = "update"
  /\ IF failed
       THEN UNCHANGED <<users, increments, cache, currentUser, loading, mgr>>
       ELSE /\ mgr[HomeScreen].pc = "idle"
            /\ users' = [users EXCEPT ![ap[c].user.id].penalty_count =
                                         ap[c].user.penalty_count + 1]
            /\ increments' = Bump(increments, <<ap[c].user.id, ap[c].today>>)
            /\ IF isMountedRef
                 THEN LET s == refreshUser(HomeScreen)
                      IN  /\ cache' = s.cache
                          /\ currentUser' = s.currentUser
                          /\ loading' = s.loading
                          /\ mgr' = s.mgr
                 ELSE UNCHANGED <<cache, currentUser, loading, mgr>>
  /\ ap' = [ap EXCEPT ![c] = ApIdle]
  /\ UNCHANGED <<pingIntervalRef, penaltyCheckRef, now, penalties, user_activity, deviceName, lastPingRef, probe,
                 roster, red, run, lastCall, written,
                 listenerVars, verseVars, showUserModal, hookVars>>

AddPenaltyUpdate(c) == \E failed \in BOOLEAN : AddPenaltyUpdateReturns(c, failed)

PenaltyCheckTimer_NoCall ==
  /\ penaltyCheckRef
  /\ ap["penaltyCheck"].pc = "idle"
  /\ UNCHANGED vars

\* The penalty-window re-check timer fires
PenaltyCheckTimer ==
  /\ penaltyCheckRef
  /\ ap["penaltyCheck"].pc = "idle"
  /\ ap' = IF isInPenaltyPeriod(now) THEN addPenalty("penaltyCheck") ELSE ap
  /\ UNCHANGED <<pingIntervalRef, penaltyCheckRef, now, users, penalties, user_activity, cache, deviceName, currentUser,
                 loading, mgr, lastPingRef, probe, roster, red, increments, run, lastCall, written,
                 listenerVars, verseVars, showUserModal, hookVars>>

----------------------------------------------------------------------------
(* useMonitoringSystem: pingServer *)

ProbeIdle == [pc |-> "idle", user |-> NullData, startTime |-> Null,
              error |-> FALSE, responseTime |-> 0]

MinPingGap == 15000
SlowResponse == 1000

pingServer_NoDebounce ==
  IF currentUser[HomeScreen] = NullData
    THEN [lastPingRef |-> lastPingRef, probe |-> probe, accepted |-> FALSE]
    ELSE [lastPingRef |-> now,
          probe |-> [ProbeIdle EXCEPT !.pc = "netinfo",
                                      !.user = currentUser[HomeScreen],
                                      !.startTime = now],
          accepted |-> TRUE]

\* pingServer up to its first await: the guard, the debounce, NetInfo.fetch
\* issued.  lastPingRef and probe after the call.
pingServer ==
  IF currentUser[HomeScreen] = NullData \/ ~isMountedRef
       \/ now - lastPingRef < MinPingGap
    THEN [lastPingRef |-> lastPingRef, probe |-> probe, accepted |-> FALSE]
    ELSE [lastPingRef |-> now,
          probe |-> [ProbeIdle EXCEPT !.pc = "netinfo",
                                      !.user = currentUser[HomeScreen],
                                      !.startTime = now],
          accepted |-> TRUE]

Debounced == [op |-> "pingServer", outcome |-> "debounced"]

\* The 30 s timer fires
PingServer ==
  /\ pingIntervalRef
  /\ probe.pc = "idle"
  /\ currentUser[HomeScreen] # NullData
  /\ LET s == pingServer
     IN  /\ lastPingRef' = s.lastPingRef
         /\ probe' = s.probe
         /\ lastCall' = IF s.accepted THEN lastCall ELSE Debounced
  /\ UNCHANGED <<pingIntervalRef, penaltyCheckRef, now, users, penalties,
                 user_activity, cache, deviceName, currentUser, loading, mgr, ap,
                 roster, red, increments, run, written,
                 listenerVars, verseVars, showUserModal, hookVars>>

\* period of the ping timer
PingInterval == 30000

\* The 30 s timer fires while the tick of an earlier firing has not
\* finished: pingServer has no in-flight guard, only the debounce, so a new
\* tick starts next to the earlier one
PingServerOverlaps ==
  /\ pingIntervalRef
  /\ probe.pc # "idle"
  /\ now - lastPingRef >= PingInterval
  /\ Len(earlier) < MaxEarlier
  /\ pingServer.accepted
  /\ earlier' = Append(earlier, probe)
  /\ lastPingRef' = pingServer.lastPingRef
  /\ probe' = pingServer.probe
  /\ UNCHANGED <<pingIntervalRef, penaltyCheckRef, now, users, penalties,
                 user_activity, cache, deviceName, currentUser, loading, mgr, ap,
                 roster, red, increments, run, lastCall, written,
                 listenerVars, verseVars, showUserModal, isMountedRef, statusOp, intervals>>

\* The await of an earlier tick is the next to resume: that tick becomes the
\* one `probe` follows
SwitchTick ==
  /\ \E i \in 1..Len(earlier) :
       /\ probe' = earlier[i]
       /\ earlier' = IF probe.pc = "idle"
                       THEN SubSeq(earlier, 1, i - 1) \o SubSeq(earlier, i + 1, Len(earlier))
                       ELSE [earlier EXCEPT ![i] = probe]
  /\ UNCHANGED <<pingIntervalRef, penaltyCheckRef, now, users, penalties,
                 user_activity, cache, deviceName, currentUser, loading, mgr,
                 lastPingRef, ap, roster, red, increments, run, lastCall, written,
                 listenerVars, verseVars, showUserModal, isMountedRef, statusOp, intervals>>

\* clearInterval(ref.current) under `if (ref.current)`: the intervals left of
\* n armed ones
clearInterval(ref, n) == IF ref THEN n - 1 ELSE n

startMonitoring_NoClear ==
  [ping |-> intervals.ping + 1, penaltyCheck |-> intervals.penaltyCheck + 1]

\* The timer table after startMonitoring: the interval each ref holds is
\* cleared, then one is armed for each ref
startMonitoring ==
  [ping |-> clearInterval(pingIntervalRef, intervals.ping) + 1,
   penaltyCheck |-> clearInterval(penaltyCheckRef, intervals.penaltyCheck) + 1]

\* The timer table after stopMonitoring: the interval each ref holds is cleared
stopMonitoring ==
  [ping |-> clearInterval(pingIntervalRef, intervals.ping),
   penaltyCheck |-> clearInterval(penaltyCheckRef, intervals.penaltyCheck)]

\* startMonitoring (the effect runs, or the app becomes active): both timers
\* are re-armed and pingServer is called at once.  One tick is modelled in
\* flight: a start while a tick runs is taken when its ping is debounced.
StartMonitoring ==
  /\ currentUser[HomeScreen] # NullData
  /\ probe.pc = "idle" \/ now - lastPingRef < MinPingGap
  /\ pingIntervalRef' = TRUE
  /\ penaltyCheckRef' = TRUE
  /\ intervals' = startMonitoring
  /\ LET s == pingServer
     IN  /\ lastPingRef' = s.lastPingRef
         /\ probe' = s.probe
         /\ lastCall' = IF s.accepted THEN lastCall ELSE Debounced
  /\ UNCHANGED <<now, users, penalties, user_activity, cache, deviceName,
                 currentUser, loading, mgr, ap, roster, red, increments, run,
                 written,
                 listenerVars, verseVars, showUserModal, isMountedRef, earlier, statusOp>>

\* stopMonitoring (the app goes to the background): both timers are cleared
StopMonitoring ==
  /\ pingIntervalRef' = FALSE
  /\ penaltyCheckRef' = FALSE
  /\ intervals' = stopMonitoring
  /\ UNCHANGED <<now, users, penalties, user_activity, cache, deviceName,
                 currentUser, loading, mgr, lastPingRef, probe, ap, roster, red,
                 increments, run, lastCall, written,
                 listenerVars, verseVars, showUserModal, isMountedRef, earlier, statusOp>>

\* The currentUser given to useMonitoringSystem becomes participant u: the
\* cleanup of the effect runs (stopMonitoring, isMountedRef = false), then
\* the effect again (isMountedRef = true, startMonitoring).  Invocations in
\* flight keep the currentUser of their closure.
RestartMonitoring(u) ==
  /\ probe.pc = "idle" \/ now - lastPingRef < MinPingGap
  /\ currentUser' = [currentUser EXCEPT ![HomeScreen] = UserRow(u)]
  /\ isMountedRef' = TRUE
  /\ pingIntervalRef' = TRUE
  /\ penaltyCheckRef' = TRUE
  /\ intervals' = [ping |-> stopMonitoring.ping + 1,
                   penaltyCheck |-> stopMonitoring.penaltyCheck + 1]
  /\ IF now - lastPingRef < MinPingGap
       THEN /\ lastCall' = Debounced
            /\ UNCHANGED <<lastPingRef, probe>>
       ELSE /\ lastPingRef' = now
            /\ probe' = [ProbeIdle EXCEPT !.pc = "netinfo",
                                          !.user = UserRow(u),
                                          !.startTime = now]
            /\ UNCHANGED lastCall
  /\ UNCHANGED <<now, users, penalties, user_activity, cache, deviceName,
                 loading, mgr, ap, roster, red, increments, run, written,
                 listenerVars, verseVars, showUserModal, earlier, statusOp>>

\* The component of the hook unmounts: the cleanup of the effect alone
UnmountMonitoring ==
  /\ isMountedRef
  /\ isMountedRef' = FALSE
  /\ pingIntervalRef' = FALSE
  /\ penaltyCheckRef' = FALSE
  /\ intervals' = stopMonitoring
  /\ UNCHANGED <<now, users, penalties, user_activity, cache, deviceName,
                 currentUser, loading, mgr, lastPingRef, probe, ap, roster, red,
                 increments, run, lastCall, written,
                 listenerVars, verseVars, showUserModal, earlier, statusOp>>

PingThrows_Escapes ==
  /\ probe.pc \in {"netinfo", "select", "activity", "status", "offline"}
  /\ probe' = [probe EXCEPT !.pc = "crashed"]
  /\ pingIntervalRef' = FALSE
  /\ lastCall' = [op |-> "pingServer", outcome |-> "caught"]
  /\ UNCHANGED <<penaltyCheckRef, now, users, penalties, user_activity, cache,
                 deviceName, currentUser, loading, mgr, lastPingRef, ap, roster,
                 red, increments, run, written,
                 listenerVars, verseVars, showUserModal, hookVars>>

\* An awaited call of the tick throws: the catch block logs it, the tick ends
PingThrows ==
  /\ probe.pc \in {"netinfo", "select", "activity", "status", "offline"}
  /\ probe' = ProbeIdle
  /\ lastCall' = [op |-> "pingServer", outcome |-> "caught"]
  /\ UNCHANGED <<pingIntervalRef, penaltyCheckRef, now, users, penalties,
                 user_activity, cache, deviceName, currentUser, loading, mgr,
                 lastPingRef, ap, roster, red, increments, run, written,
                 listenerVars, verseVars, showUserModal, hookVars>>

\* NetInfo.fetch returns
PingNetInfo ==
  /\ probe.pc = "netinfo"
  /\ \E isConnected \in BOOLEAN :
       probe' = [probe EXCEPT !.pc = IF isConnected THEN "select" ELSE "offline"]
  /\ UNCHANGED <<pingIntervalRef, penaltyCheckRef, now, users, penalties, user_activity, cache, deviceName, currentUser,
                 loading, mgr, lastPingRef, ap, roster, red, increments, run, lastCall, written,
                 listenerVars, verseVars, showUserModal, hookVars>>

PingSelectReturns_LogsErrorsOnly(failed) ==
  /\ probe.pc = "select"
  /\ LET error == failed \/ probe.user.id \notin UserIds
         responseTime == now - probe.startTime
     IN  probe' = [probe EXCEPT
                     !.pc = IF error THEN "activity" ELSE "status",
                     !.error = error,
                     !.responseTime = responseTime]
  /\ UNCHANGED <<pingIntervalRef, penaltyCheckRef, now, users, penalties, user_activity, cache, deviceName,
                 currentUser, loading, mgr, lastPingRef, ap, roster, red,
                 increments, run, lastCall, written,
                 listenerVars, verseVars, showUserModal, hookVars>>

\* The existence read returns (failed: with an error)
PingSelectReturns(failed) ==
  /\ probe.pc = "select"
  /\ LET error == failed \/ probe.user.id \notin UserIds
         responseTime == now - probe.startTime
     IN  probe' = [probe EXCEPT
                     !.pc = IF error \/ responseTime > SlowResponse
                              THEN "activity" ELSE "status",
                     !.error = error,
                     !.responseTime = responseTime]
  /\ UNCHANGED <<pingIntervalRef, penaltyCheckRef, now, users, penalties, user_activity, cache, deviceName,
                 currentUser, loading, mgr, lastPingRef, ap, roster, red,
                 increments, run, lastCall, written,
                 listenerVars, verseVars, showUserModal, hookVars>>

PingSelect == \E failed \in BOOLEAN : PingSelectReturns(failed)

\* The user_activity insert returns (its result is not looked at)
PingActivityReturns(failed) ==
  /\ probe.pc = "activity"
  /\ IF failed
       THEN UNCHANGED user_activity
       ELSE /\ Len(user_activity) < MaxActivity
            /\ user_activity' = Append(user_activity,
                                       [user_id |-> probe.user.id,
                                        ping_timestamp |-> now,
                                        response_time |-> probe.responseTime,
                                        is_online |-> ~probe.error])
  /\ probe' = [probe EXCEPT !.pc = "status"]
  /\ UNCHANGED <<pingIntervalRef, penaltyCheckRef, now, users, penalties, cache, deviceName, currentUser, loading,
                 mgr, lastPingRef, ap, roster, red, increments, run, lastCall,
                 written,
                 listenerVars, verseVars, showUserModal, hookVars>>

PingActivity == \E failed \in BOOLEAN : PingActivityReturns(failed)

statusUpdate_OnlyIfChanged(us, id, isOnline) ==
  IF us[id].is_online = isOnline
    THEN us
    ELSE [us EXCEPT ![id].is_online = isOnline, ![id].last_seen = now]

\* The row the status update of a tick writes
statusUpdate(us, id, isOnline) ==
  [us EXCEPT ![id].is_online = isOnline, ![id].last_seen = now]

\* The status update returns (its result is not looked at); then the
\* penalty check of the tick.
PingStatusReturns(failed) ==
  /\ probe.pc = "status"
  /\ users' = IF failed THEN users ELSE statusUpdate(users, probe.user.id, ~probe.error)
  /\ IF ~probe.error /\ isInPenaltyPeriod(now)
       THEN /\ ap["pingServer"].pc = "idle"
            /\ ap' = addPenalty("pingServer")
            /\ probe' = [probe EXCEPT !.pc = "addPenalty"]
            /\ UNCHANGED lastCall
       ELSE /\ probe' = ProbeIdle
            /\ lastCall' = [op |-> "pingServer",
                            outcome |-> IF probe.error THEN "error" ELSE "online"]
            /\ UNCHANGED ap
  /\ UNCHANGED <<pingIntervalRef, penaltyCheckRef, now, penalties, user_activity, cache, deviceName, currentUser,
                 loading, mgr, lastPingRef, roster, red, increments, run, written,
                 listenerVars, verseVars, showUserModal, hookVars>>

PingStatus == \E failed \in BOOLEAN : PingStatusReturns(failed)

\* await addPenalty() returns: the tick ends
PingAddPenaltyReturn ==
  /\ probe.pc = "addPenalty"
  /\ ap["pingServer"].pc = "idle"
  /\ probe' = ProbeIdle
  /\ lastCall' = [op |-> "pingServer", outcome |-> "penalty"]
  /\ UNCHANGED <<pingIntervalRef, penaltyCheckRef, now, users, penalties, user_activity, cache, deviceName,
                 currentUser, loading, mgr, lastPingRef, ap, roster, red,
                 increments, run, written,
                 listenerVars, verseVars, showUserModal, hookVars>>

offlineUpdate_KeepsOnline(us, id) ==
  [us EXCEPT ![id].last_seen = now]

\* The row the offline branch of a tick writes
offlineUpdate(us, id) == statusUpdate(us, id, FALSE)

\* The offline branch: is_online = false is written (its result is not
\* looked at) and the tick ends
PingOfflineReturns(failed) ==
  /\ probe.pc = "offline"
  /\ users' = IF failed THEN users ELSE offlineUpdate(users, probe.user.id)
  /\ probe' = ProbeIdle
  /\ lastCall' = [op |-> "pingServer", outcome |-> "offline"]
  /\ UNCHANGED <<pingIntervalRef, penaltyCheckRef, now, penalties, user_activity, cache, deviceName, currentUser,
                 loading, mgr, lastPingRef, ap, roster, red, increments, run,
                 written,
                 listenerVars, verseVars, showUserModal, hookVars>>

PingOffline == \E failed \in BOOLEAN : PingOfflineReturns(failed)

----------------------------------------------------------------------------
(* SettingsScreen: loadUsers, reducePenalty *)

RedIdle == [pc |-> "idle", user |-> NullData, reducer |-> Null, penalty |-> Null,
            alert |-> "none"]

\* The roster rows of a select * from users, as the screen uses them
UsersData(us) == [u \in DOMAIN us |-> us[u].penalty_count]

\* loadUsers against store table us: the cached list if one is held, else the
\* fetched list, which is cached for a minute.  The fetch and the handling of
\* its result are one step.  <<cache of the screen, roster>> afterwards.
loadUsers(c, us, failed) ==
  LET got == useCache_get(c, UsersListKey, now)
  IN  IF got.data # NullData
        THEN [cache |-> got.cache, roster |-> got.data.rows]
        ELSE IF failed
          THEN [cache |-> got.cache, roster |-> roster]
          ELSE [cache |-> useCache_set(got.cache, UsersListKey,
                                       [kind |-> "list", rows |-> UsersData(us)],
                                       UsersListTtl, now),
                roster |-> UsersData(us)]

\* "View users" is pressed: loadUsers() and setShowUserModal(true)
LoadUsers ==
  /\ \E failed \in BOOLEAN :
       LET s == loadUsers(cache[SettingsCache], users, failed)
       IN  /\ cache' = [cache EXCEPT ![SettingsCache] = s.cache]
           /\ roster' = s.roster
  /\ showUserModal' = TRUE
  /\ UNCHANGED <<pingIntervalRef, penaltyCheckRef, now, users, penalties, user_activity, deviceName, currentUser,
                 loading, mgr, lastPingRef, probe, ap, red, increments, run,
                 lastCall, written,
                 listenerVars, verseVars, hookVars>>

\* The modal is closed
CloseUserModal ==
  /\ showUserModal
  /\ showUserModal' = FALSE
  /\ UNCHANGED <<pingIntervalRef, penaltyCheckRef, now, users, penalties, user_activity, cache, deviceName,
                 currentUser, loading, mgr, lastPingRef, probe, ap, roster, red,
                 increments, run, lastCall, written,
                 listenerVars, verseVars, hookVars>>

\* The onUsersListUpdate callback of the SettingsScreen is called (a users or
\* penalties change notification): loadUsers() if the modal is shown
OnUsersListUpdate(failed) ==
  /\ showUserModal
  /\ LET s == loadUsers(cache[SettingsCache], users, failed)
     IN  /\ cache' = [cache EXCEPT ![SettingsCache] = s.cache]
         /\ roster' = s.roster
  /\ lastCall' = [op |-> "onUsersListUpdate"]
  /\ UNCHANGED <<pingIntervalRef, penaltyCheckRef, now, users, penalties, user_activity, deviceName, currentUser,
                 loading, mgr, lastPingRef, probe, ap, red, increments, run,
                 written,
                 listenerVars, verseVars, showUserModal, hookVars>>

UsersListNotified == \E failed \in BOOLEAN : OnUsersListUpdate(failed)

reducePenalty_NoZeroCheck(u) ==
  IF currentUser[SettingsScreen] = NullData
    THEN red
    ELSE [RedIdle EXCEPT !.pc = "confirm",
                         !.user = [id |-> u, penalty_count |-> roster[u]],
                         !.reducer = currentUser[SettingsScreen].id,
                         !.alert = "Reduce Penalty"]

\* reducePenalty(user) up to the confirmation dialog: the value of red after
\* the call for roster row u.
reducePenalty(u) ==
  IF currentUser[SettingsScreen] = NullData
    THEN red
    ELSE IF roster[u] = 0
      THEN [RedIdle EXCEPT !.alert = "No Penalties"]
      ELSE [RedIdle EXCEPT !.pc = "confirm",
                           !.user = [id |-> u, penalty_count |-> roster[u]],
                           !.reducer = currentUser[SettingsScreen].id,
                           !.alert = "Reduce Penalty"]

\* The reduce button of roster row u is pressed
ReducePenalty(u) ==
  /\ red.pc = "idle"
  /\ u \in DOMAIN roster
  /\ red' = reducePenalty(u)
  /\ UNCHANGED <<pingIntervalRef, penaltyCheckRef, now, users, penalties, user_activity, cache, deviceName,
                 currentUser, loading, mgr, lastPingRef, probe, ap, roster,
                 increments, run, lastCall, written,
                 listenerVars, verseVars, showUserModal, hookVars>>

\* The dialog is answered: Cancel, or Reduce (the find query is issued)
ReduceAnswer ==
  /\ red.pc = "confirm"
  /\ \E reduce \in BOOLEAN :
       red' = IF reduce THEN [red EXCEPT !.pc = "find"] ELSE RedIdle
  /\ UNCHANGED <<pingIntervalRef, penaltyCheckRef, now, users, penalties, user_activity, cache, deviceName,
                 currentUser, loading, mgr, lastPingRef, probe, ap, roster,
                 increments, run, lastCall, written,
                 listenerVars, verseVars, showUserModal, hookVars>>

\* The find query returns
ReduceFind ==
  /\ red.pc = "find"
  /\ \E failed \in BOOLEAN :
       LET res == IF failed
                    THEN [data |-> Null, error |-> StoreError]
                    ELSE mostRecent(ActivePenalties(red.user.id))
       IN  red' = IF res.error # NoError /\ res.error # PGRST116
                    THEN [RedIdle EXCEPT !.alert = "Error"]
                    ELSE IF res.data = Null
                      THEN [RedIdle EXCEPT !.alert = "No penalties found"]
                      ELSE [red EXCEPT !.pc = "mark", !.penalty = res.data]
  /\ UNCHANGED <<pingIntervalRef, penaltyCheckRef, now, users, penalties, user_activity, cache, deviceName,
                 currentUser, loading, mgr, lastPingRef, probe, ap, roster,
                 increments, run, lastCall, written,
                 listenerVars, verseVars, showUserModal, hookVars>>

\* The update marking the penalty as removed returns
ReduceMark ==
  /\ red.pc = "mark"
  /\ \/ /\ penalties' = [penalties EXCEPT ![red.penalty].removed_by = red.reducer,
                                          ![red.penalty].removed_at = now]
        /\ red' = [red EXCEPT !.pc = "count"]
     \/ /\ red' = [RedIdle EXCEPT !.alert = "Error"]
        /\ UNCHANGED penalties
  /\ UNCHANGED <<pingIntervalRef, penaltyCheckRef, now, users, user_activity, cache, deviceName, currentUser,
                 loading, mgr, lastPingRef, probe, ap, roster, increments, run,
                 lastCall, written,
                 listenerVars, verseVars, showUserModal, hookVars>>

reducedPenaltyCount_TwoOff(n) == n - 2

\* Math.max(0, user.penalty_count - 1): the counter the reduction writes
reducedPenaltyCount(n) == IF n - 1 > 0 THEN n - 1 ELSE 0

\* The counter update returns: penalty_count is written from the roster row
\* the call was given; then loadUsers and refreshUser run.
ReduceCount ==
  /\ red.pc = "count"
  /\ \/ /\ mgr[SettingsScreen].pc = "idle"
        /\ users' = [users EXCEPT ![red.user.id].penalty_count =
                                     reducedPenaltyCount(red.user.penalty_count)]
        /\ red' = [RedIdle EXCEPT !.alert = "Success"]
        /\ \E failed \in BOOLEAN :
             LET l == loadUsers(cache[SettingsCache], users', failed)
                 s == refreshUser(SettingsScreen)
             IN  /\ roster' = l.roster
                 /\ cache' = [s.cache EXCEPT ![SettingsCache] = l.cache]
                 /\ currentUser' = s.currentUser
                 /\ loading' = s.loading
                 /\ mgr' = s.mgr
     \/ /\ red' = [RedIdle EXCEPT !.alert = "Error"]
        /\ UNCHANGED <<users, roster, cache, currentUser, loading, mgr>>
  /\ UNCHANGED <<pingIntervalRef, penaltyCheckRef, now, penalties, user_activity, deviceName, lastPingRef, probe,
                 ap, increments, run, lastCall, written,
                 listenerVars, verseVars, showUserModal, hookVars>>

----------------------------------------------------------------------------
(* useRealtimeUpdates *)

\* cap on the setupSubscriptions runs of one listener
MaxSetups == 2

Tables == {"users", "verses", "penalties"}
AllProps == {"onUserUpdate", "onUsersListUpdate", "onVerseUpdate"}

unsubscribeAll_Noop(ch, subs) == ch

\* subscriptionsRef.current.forEach(sub => sub.unsubscribe())
unsubscribeAll(ch, subs) == ch \ subs

\* setupSubscriptions of listener l run against the live subscriptions ch:
\* the old subscriptions are dropped, three new ones are created with the
\* currentUser and the callbacks of this render in their closures.
setupSubscriptions(l, ch) ==
  LET created == {[listener |-> l, setup |-> setups[l] + 1, table |-> t,
                   currentUser |-> currentUser[l], props |-> props[l]] :
                    t \in Tables}
  IN  [channels |-> unsubscribeAll(ch, subscriptionsRef[l]) \cup created,
       subscriptionsRef |-> created]

\* The effect of the hook runs (mount, or currentUser or a callback
\* changed): the cleanup of the previous run, then setupSubscriptions
RunEffect(l) ==
  /\ setups[l] < MaxSetups
  /\ LET cleaned == IF setups[l] = 0 THEN channels
                    ELSE unsubscribeAll(channels, subscriptionsRef[l])
         s == setupSubscriptions(l, cleaned)
     IN  /\ channels' = s.channels
         /\ subscriptionsRef' = [subscriptionsRef EXCEPT ![l] = s.subscriptionsRef]
  /\ setups' = [setups EXCEPT ![l] = @ + 1]
  /\ UNCHANGED <<pingIntervalRef, penaltyCheckRef, now, users, penalties,
                 user_activity, cache, deviceName, currentUser, loading, mgr,
                 lastPingRef, probe, ap, roster, red, increments, run, lastCall,
                 written, props, verseVars, showUserModal, hookVars>>

\* optional chaining: a callback that was not passed is not called
Given(sub, calls) == SelectSeq(calls, LAMBDA c : c.cb \in sub.props)

userHandler_LocalOnInsert(sub, eventType, new) ==
  Given(sub,
        IF eventType \in {"UPDATE", "INSERT"} /\ new # NullData
          THEN (IF sub.currentUser # NullData /\ new.id = sub.currentUser.id
                  THEN << [cb |-> "onUserUpdate", arg |-> new] >>
                  ELSE << >>)
               \o << [cb |-> "onUsersListUpdate", arg |-> NullData] >>
          ELSE << >>)

\* The handler of the users channel: the callbacks it calls, in order
userHandler(sub, eventType, new) ==
  Given(sub,
        IF eventType = "UPDATE" /\ new # NullData
          THEN (IF sub.currentUser # NullData /\ new.id = sub.currentUser.id
                  THEN << [cb |-> "onUserUpdate", arg |-> new] >>
                  ELSE << >>)
               \o << [cb |-> "onUsersListUpdate", arg |-> NullData] >>
          ELSE IF eventType = "INSERT"
            THEN << [cb |-> "onUsersListUpdate", arg |-> NullData] >>
            ELSE << >>)

\* The handler of the verses channel
verseHandler(sub) == Given(sub, << [cb |-> "onVerseUpdate", arg |-> NullData] >>)

penaltyHandler_NoLocal(sub) ==
  Given(sub, << [cb |-> "onUsersListUpdate", arg |-> NullData] >>)

\* The handler of the penalties channel
penaltyHandler(sub) ==
  Given(sub,
        << [cb |-> "onUsersListUpdate", arg |-> NullData] >>
        \o (IF sub.currentUser # NullData
              THEN << [cb |-> "onUserUpdate", arg |-> sub.currentUser] >>
              ELSE << >>))

handler(sub, eventType, new) ==
  IF sub.table = "users" THEN userHandler(sub, eventType, new)
  ELSE IF sub.table = "verses" THEN verseHandler(sub)
  ELSE penaltyHandler(sub)

LiveSubs(l, table) == {sub \in channels : sub.listener = l /\ sub.table = table}

RECURSIVE Delivered(_, _, _)
\* The callbacks an event makes the subscriptions subs call, oldest first
Delivered(subs, eventType, new) ==
  IF subs = {} THEN << >>
  ELSE LET first == CHOOSE sub \in subs : \A o \in subs : sub.setup <= o.setup
       IN  handler(first, eventType, new)
             \o Delivered(subs \ {first}, eventType, new)

EventTypes == {"INSERT", "UPDATE", "DELETE"}

\* A change event of a table reaches the client
ChangeEvent(table, eventType, new) ==
  /\ lastCall' = [op |-> "event", table |-> table, eventType |-> eventType,
                  new |-> new,
                  calls |-> [l \in Managers |->
                               Delivered(LiveSubs(l, table), eventType, new)]]
  /\ UNCHANGED <<pingIntervalRef, penaltyCheckRef, now, users, penalties,
                 user_activity, cache, deviceName, currentUser, loading, mgr,
                 lastPingRef, probe, ap, roster, red, increments, run, written,
                 listenerVars, verseVars, showUserModal, hookVars>>

\* payload.new of a users event
Payload(u) ==
  [kind |-> "user", id |-> u, device_name |-> users[u].device_name,
   penalty_count |-> users[u].penalty_count, is_online |-> users[u].is_online,
   last_seen |-> users[u].last_seen]

UserEvent ==
  \E eventType \in EventTypes : \E u \in UserIds :
    ChangeEvent("users", eventType, IF eventType = "DELETE" THEN NullData ELSE Payload(u))

VerseEvent == \E eventType \in EventTypes : ChangeEvent("verses", eventType, NullData)

PenaltyEvent == \E eventType \in EventTypes : ChangeEvent("penalties", eventType, NullData)

----------------------------------------------------------------------------
(* HomeScreen: checkTodaySubmission, submitVerse *)

\* cap on the rows of the verses table
MaxVerses == 2

VerseTtl == 5 * 60 * 1000
VerseKey(id, today) == <<"verse", id, today>>
Submission(b) == [kind |-> "boolean", v |-> b]

VerseIdle == [check |-> "idle", by |-> "none", submit |-> "idle", user |-> NullData, today |-> Null]

\* verses where user_id = uid and submitted_date = date
VersesOn(uid, date) ==
  {v \in DOMAIN verses : verses[v].user_id = uid /\ verses[v].submitted_date = date}

\* checkTodaySubmission() called by `by`, up to its first await: a cached
\* value, true or false, is taken as the answer; else the query is issued
checkTodaySubmission(by) ==
  /\ verseOp.check = "idle"
  /\ IF currentUser[HomeScreen] = NullData
       THEN UNCHANGED <<cache, hasSubmittedToday, verseOp>>
       ELSE LET today == toISODate(now)
                got == useCache_get(cache[HomeCache],
                                    VerseKey(currentUser[HomeScreen].id, today), now)
            IN  /\ cache' = [cache EXCEPT ![HomeCache] = got.cache]
                /\ IF got.data # NullData
                     THEN /\ hasSubmittedToday' = got.data.v
                          /\ UNCHANGED verseOp
                     ELSE /\ verseOp' = [verseOp EXCEPT !.check = "select",
                                                        !.by = by,
                                                        !.user = currentUser[HomeScreen],
                                                        !.today = today]
                          /\ UNCHANGED hasSubmittedToday
  /\ lastCall' = [op |-> "checkTodaySubmission", by |-> by]
  /\ UNCHANGED <<pingIntervalRef, penaltyCheckRef, now, users, penalties, user_activity, deviceName, currentUser,
                 loading, mgr, lastPingRef, probe, ap, roster, red, increments,
                 run, written, verses,
                 listenerVars, showUserModal, hookVars>>

\* The effect of the HomeScreen calls it (mount, currentUser changed)
CheckTodaySubmission == checkTodaySubmission("effect")

\* The onVerseUpdate callback of the HomeScreen: a verses change notification
OnVerseUpdate == checkTodaySubmission("onVerseUpdate")

\* The query of checkTodaySubmission returns: .single() of the rows of the
\* participant and the date; the answer is shown and cached for five minutes
CheckSelectReturns(failed) ==
  /\ verseOp.check = "select"
  /\ LET res == IF failed THEN [data |-> Null, error |-> StoreError]
                ELSE single(VersesOn(verseOp.user.id, verseOp.today))
         hasSubmitted == res.data # Null /\ res.error = NoError
     IN  /\ hasSubmittedToday' = hasSubmitted
         /\ cache' = [cache EXCEPT ![HomeCache] =
                        useCache_set(@, VerseKey(verseOp.user.id, verseOp.today),
                                     Submission(hasSubmitted), VerseTtl, now)]
  /\ verseOp' = [verseOp EXCEPT !.check = "idle", !.by = "none",
                                !.user = IF verseOp.submit = "idle" THEN NullData ELSE @,
                                !.today = IF verseOp.submit = "idle" THEN Null ELSE @]
  /\ lastCall' = [op |-> "checkTodaySubmission returns", by |-> verseOp.by]
  /\ UNCHANGED <<pingIntervalRef, penaltyCheckRef, now, users, penalties, user_activity, deviceName, currentUser,
                 loading, mgr, lastPingRef, probe, ap, roster, red, increments,
                 run, written, verses,
                 listenerVars, showUserModal, hookVars>>

CheckSelect == \E failed \in BOOLEAN : CheckSelectReturns(failed)

\* submitVerse() with a verse typed in, up to the insert: refused without a
\* user, when already submitted, and from 22:30 local time on
SubmitVerse ==
  /\ verseOp.submit = "idle"
  /\ verseOp.check = "idle"
  /\ currentUser[HomeScreen] # NullData
  /\ ~hasSubmittedToday
  /\ getHours(now) * 60 + getMinutes(now) < 22 * 60 + 30
  /\ verseOp' = [verseOp EXCEPT !.submit = "insert",
                                !.user = currentUser[HomeScreen],
                                !.today = toISODate(now)]
  /\ UNCHANGED <<pingIntervalRef, penaltyCheckRef, now, users, penalties, user_activity, cache, deviceName,
                 currentUser, loading, mgr, lastPingRef, probe, ap, roster, red,
                 increments, run, lastCall, written, verses, hasSubmittedToday,
                 listenerVars, showUserModal, hookVars>>

\* The insert of submitVerse returns
SubmitVerseReturns(failed) ==
  /\ verseOp.submit = "insert"
  /\ verseOp.check = "idle"
  /\ IF failed
       THEN UNCHANGED <<verses, hasSubmittedToday, cache>>
       ELSE /\ Len(verses) < MaxVerses
            /\ verses' = Append(verses, [user_id |-> verseOp.user.id,
                                         submitted_date |-> verseOp.today])
            /\ hasSubmittedToday' = TRUE
            /\ cache' = [cache EXCEPT ![HomeCache] =
                           useCache_set(@, VerseKey(verseOp.user.id, toISODate(now)),
                                        Submission(TRUE), VerseTtl, now)]
  /\ verseOp' = VerseIdle
  /\ UNCHANGED <<pingIntervalRef, penaltyCheckRef, now, users, penalties, user_activity, deviceName, currentUser,
                 loading, mgr, lastPingRef, probe, ap, roster, red, increments,
                 run, lastCall, written,
                 listenerVars, showUserModal, hookVars>>

SubmitVerseInsert == \E failed \in BOOLEAN : SubmitVerseReturns(failed)

\* Another device of participant u (device names are shared between
\* installations of one browser or model) submits its verse of today
VerseInserted(u) ==
  /\ Len(verses) < MaxVerses
  /\ verses' = Append(verses, [user_id |-> u, submitted_date |-> toISODate(now)])
  /\ UNCHANGED <<pingIntervalRef, penaltyCheckRef, now, users, penalties, user_activity, cache, deviceName,
                 currentUser, loading, mgr, lastPingRef, probe, ap, roster, red,
                 increments, run, lastCall, written, hasSubmittedToday, verseOp,
                 listenerVars, showUserModal, hookVars>>

----------------------------------------------------------------------------
(* The monitoring specification: one device around the start of the window *)

\* The clock advances by d ms, up to `horizon`
Tick(d, horizon) ==
  /\ now + d <= horizon
  /\ now' = now + d
  /\ UNCHANGED <<pingIntervalRef, penaltyCheckRef, users, penalties, user_activity, cache, deviceName, currentUser,
                 loading, mgr, lastPingRef, probe, ap, roster, red, increments,
                 run, lastCall, written,
                 listenerVars, verseVars, showUserModal, hookVars>>

Yesterday == toISODate(StartTime) - 1

\* The store before the night: no penalty yet, or one active penalty of
\* yesterday for each participant
InitialStores ==
  { [users |-> << [device_name |-> DeviceA, penalty_count |-> 0,
                   is_online |-> TRUE, last_seen |-> StartTime],
                  [device_name |-> DeviceB, penalty_count |-> 0,
                   is_online |-> FALSE, last_seen |-> StartTime] >>,
     penalties |-> << >>],
    [users |-> << [device_name |-> DeviceA, penalty_count |-> 1,
                   is_online |-> TRUE, last_seen |-> StartTime],
                  [device_name |-> DeviceB, penalty_count |-> 1,
                   is_online |-> FALSE, last_seen |-> StartTime] >>,
     penalties |-> << [user_id |-> 1, penalty_date |-> Yesterday,
                       removed_by |-> Null, removed_at |-> Null, created_at |-> 1],
                      [user_id |-> 2, penalty_date |-> Yesterday,
                       removed_by |-> Null, removed_at |-> Null, created_at |-> 2] >>] }

NoCall == [op |-> "none"]

\* The callbacks the two screens pass to useRealtimeUpdates
AppProps(l) == IF l = HomeScreen THEN {"onVerseUpdate"} ELSE {"onUsersListUpdate"}


RunIdle == [active |-> FALSE, pending |-> FALSE, base |-> 0, today |-> Null,
            calls |-> 0]

\* Both screens have resolved the local participant (user 1); it is t o'clock
InitResolved(store, t) ==
  /\ now = t
  /\ users = store.users
  /\ penalties = store.penalties
  /\ user_activity = << >>
  /\ cache = [o \in CacheOwners |-> << >>]
  /\ deviceName = [m \in Managers |-> DeviceA]
  /\ currentUser = [m \in Managers |->
                      [kind |-> "user", id |-> 1,
                       device_name |-> store.users[1].device_name,
                       penalty_count |-> store.users[1].penalty_count,
                       is_online |-> store.users[1].is_online,
                       last_seen |-> store.users[1].last_seen]]
  /\ loading = [m \in Managers |-> FALSE]
  /\ mgr = [m \in Managers |-> MgrIdle]
  /\ lastPingRef = 0
  /\ pingIntervalRef = TRUE
  /\ penaltyCheckRef = TRUE
  /\ probe = ProbeIdle
  /\ ap = [c \in Callers |-> ApIdle]
  /\ roster = << >>
  /\ red = RedIdle
  /\ increments = << >>
  /\ run = RunIdle
  /\ lastCall = NoCall
  /\ written = << >>
  /\ subscriptionsRef = [l \in Managers |-> {}]
  /\ channels = {}
  /\ props = [l \in Managers |-> AppProps(l)]
  /\ setups = [l \in Managers |-> 0]
  /\ verses = << >>
  /\ hasSubmittedToday = FALSE
  /\ verseOp = VerseIdle
  /\ showUserModal = FALSE
  /\ isMountedRef = TRUE
  /\ earlier = << >>
  /\ statusOp = [m \in Managers |-> StatusIdle]
  /\ intervals = [ping |-> 1, penaltyCheck |-> 1]

Init == \E store \in InitialStores : InitResolved(store, StartTime)

Next ==
  \/ Tick(MinPingGap, StartTime + MaxTicks * MinPingGap)
  \/ PingServer
  \/ PingNetInfo
  \/ PingSelect
  \/ PingActivity
  \/ PingStatus
  \/ PingAddPenaltyReturn
  \/ PingOffline
  \/ PingThrows
  \/ PenaltyCheckTimer
  \/ \E c \in Callers : AddPenaltySelect(c)
  \/ \E c \in Callers : AddPenaltyInsert(c)
  \/ \E c \in Callers : AddPenaltyUpdate(c)
  \/ InitFetch(HomeScreen)
  \/ InitUpdate(HomeScreen)

Spec == Init /\ [][Next]_vars

----------------------------------------------------------------------------
(* The settings specification: the window re-check timer of the HomeScreen *)
(* and the roster / reducePenalty of the SettingsScreen, at one instant     *)
(* inside the window (a roster once loaded stays cached: its ttl is 60 s)   *)

WindowTime == StartTime + MinPingGap

InitSettings == \E store \in InitialStores : InitResolved(store, WindowTime)

NextSettings ==
  \/ PenaltyCheckTimer
  \/ AddPenaltySelect("penaltyCheck")
  \/ AddPenaltyInsert("penaltyCheck")
  \/ AddPenaltyUpdate("penaltyCheck")
  \/ \E m \in Managers : InitFetch(m)
  \/ \E m \in Managers : InitUpdate(m)
  \/ LoadUsers
  \/ \E u \in UserIds : ReducePenalty(u)
  \/ ReduceAnswer
  \/ ReduceFind
  \/ ReduceMark
  \/ ReduceCount

SpecSettings == InitSettings /\ [][NextSettings]_vars

----------------------------------------------------------------------------
(* The serial specification: after any reductions made from the            *)
(* SettingsScreen, addPenalty is called MaxCalls times one after another,   *)
(* each call awaited, every store operation of the calls succeeding         *)

\* The sequence starts: nothing is in flight and the local participant has
\* no active penalty for today
StartRun ==
  /\ ~run.active
  /\ red.pc = "idle"
  /\ \A m \in Managers : mgr[m].pc = "idle"
  /\ \A c \in Callers : ap[c].pc = "idle"
  /\ currentUser[HomeScreen] # NullData
  /\ ActivePenaltiesOn(currentUser[HomeScreen].id, toISODate(now)) = {}
  /\ run' = [active |-> TRUE, pending |-> FALSE,
             base |-> users[currentUser[HomeScreen].id].penalty_count,
             today |-> toISODate(now), calls |-> 0]
  /\ UNCHANGED <<pingIntervalRef, penaltyCheckRef, now, users, penalties, user_activity, cache, deviceName,
                 currentUser, loading, mgr, lastPingRef, probe, ap, roster, red,
                 increments, lastCall, written,
                 listenerVars, verseVars, showUserModal, hookVars>>

\* await addPenalty(): the call
RunCall ==
  /\ run.active /\ ~run.pending
  /\ run.calls < MaxCalls
  /\ ap["penaltyCheck"].pc = "idle"
  /\ ap' = addPenalty("penaltyCheck")
  /\ run' = [run EXCEPT !.pending = TRUE]
  /\ UNCHANGED <<pingIntervalRef, penaltyCheckRef, now, users, penalties, user_activity, cache, deviceName,
                 currentUser, loading, mgr, lastPingRef, probe, roster, red,
                 increments, lastCall, written,
                 listenerVars, verseVars, showUserModal, hookVars>>

\* await addPenalty(): the call has returned
RunReturn ==
  /\ run.active /\ run.pending
  /\ ap["penaltyCheck"].pc = "idle"
  /\ run' = [run EXCEPT !.pending = FALSE, !.calls = @ + 1]
  /\ UNCHANGED <<pingIntervalRef, penaltyCheckRef, now, users, penalties, user_activity, cache, deviceName,
                 currentUser, loading, mgr, lastPingRef, probe, ap, roster, red,
                 increments, lastCall, written,
                 listenerVars, verseVars, showUserModal, hookVars>>

NextSerial ==
  \/ ~run.active /\ LoadUsers
  \/ ~run.active /\ \E u \in UserIds : ReducePenalty(u)
  \/ ~run.active /\ ReduceAnswer
  \/ ~run.active /\ ReduceFind
  \/ ~run.active /\ ReduceMark
  \/ ~run.active /\ ReduceCount
  \/ \E m \in Managers : InitFetch(m)
  \/ \E m \in Managers : InitUpdate(m)
  \/ StartRun
  \/ RunCall
  \/ AddPenaltySelectReturns("penaltyCheck", FALSE)
  \/ AddPenaltyInsertReturns("penaltyCheck", FALSE)
  \/ AddPenaltyUpdateReturns("penaltyCheck", FALSE)
  \/ RunReturn

SpecSerial == InitSettings /\ [][NextSerial]_vars

----------------------------------------------------------------------------
(* The window specification: isInPenaltyPeriod is evaluated at the first    *)
(* and the last millisecond of every local minute of a day                  *)

MinutesPerDay == 24 * 60

WindowTimes ==
  { 2 * MsPerDay - TzOffset + m * MsPerMinute + ms :
      m \in 0 .. (MinutesPerDay - 1), ms \in {0, MsPerMinute - 1} }

InitWindow ==
  \E store \in InitialStores : \E t \in WindowTimes : InitResolved(store, t)

CheckPenaltyPeriod ==
  /\ lastCall' = [op |-> "isInPenaltyPeriod", result |-> isInPenaltyPeriod(now)]
  /\ UNCHANGED <<pingIntervalRef, penaltyCheckRef, now, users, penalties, user_activity, cache, deviceName,
                 currentUser, loading, mgr, lastPingRef, probe, ap, roster, red,
                 increments, run, written,
                 listenerVars, verseVars, showUserModal, hookVars>>

NextWindow == CheckPenaltyPeriod

SpecWindow == InitWindow /\ [][NextWindow]_vars

----------------------------------------------------------------------------
(* The cache specification: get, set, remove and clear are called on one    *)
(* useCache instance, on two keys, a millisecond apart or at the same       *)
(* clock reading                                                            *)

\* milliseconds the clock of the cache specification advances
MaxCacheTicks == 3

CacheKeys == {UserKey(DeviceA), UsersListKey}
CacheValues == {[kind |-> "value", v |-> "v1"], [kind |-> "value", v |-> "v2"]}
CacheTtls == {0, 1, 2}

CacheGet(key) ==
  /\ LET got == useCache_get(cache[SettingsCache], key, now)
     IN  /\ cache' = [cache EXCEPT ![SettingsCache] = got.cache]
         /\ lastCall' = [op |-> "get", key |-> key, data |-> got.data]
  /\ UNCHANGED <<pingIntervalRef, penaltyCheckRef, now, users, penalties, user_activity, deviceName, currentUser,
                 loading, mgr, lastPingRef, probe, ap, roster, red, increments,
                 run, written,
                 listenerVars, verseVars, showUserModal, hookVars>>

CacheSet(key, data, ttl) ==
  /\ cache' = [cache EXCEPT ![SettingsCache] = useCache_set(@, key, data, ttl, now)]
  /\ lastCall' = [op |-> "set", key |-> key, data |-> data]
  /\ written' = [k \in DOMAIN written \cup {key} |->
                   IF k = key
                     THEN [data |-> data, ttl |-> ttl, at |-> now,
                           replaced |-> key \in DOMAIN cache[SettingsCache]]
                     ELSE written[k]]
  /\ UNCHANGED <<pingIntervalRef, penaltyCheckRef, now, users, penalties, user_activity, deviceName, currentUser,
                 loading, mgr, lastPingRef, probe, ap, roster, red, increments,
                 run,
                 listenerVars, verseVars, showUserModal, hookVars>>

CacheRemove(key) ==
  /\ cache' = [cache EXCEPT ![SettingsCache] = useCache_remove(@, key)]
  /\ lastCall' = [op |-> "remove", key |-> key, data |-> NullData]
  /\ written' = RemoveKey(written, key)
  /\ UNCHANGED <<pingIntervalRef, penaltyCheckRef, now, users, penalties, user_activity, deviceName, currentUser,
                 loading, mgr, lastPingRef, probe, ap, roster, red, increments,
                 run,
                 listenerVars, verseVars, showUserModal, hookVars>>

CacheClear ==
  /\ cache' = [cache EXCEPT ![SettingsCache] = useCache_clear(@)]
  /\ lastCall' = [op |-> "clear", key |-> << >>, data |-> NullData]
  /\ written' = << >>
  /\ UNCHANGED <<pingIntervalRef, penaltyCheckRef, now, users, penalties, user_activity, deviceName, currentUser,
                 loading, mgr, lastPingRef, probe, ap, roster, red, increments,
                 run,
                 listenerVars, verseVars, showUserModal, hookVars>>

NextCache ==
  \/ Tick(1, StartTime + MaxCacheTicks)
  \/ \E key \in CacheKeys : CacheGet(key)
  \/ \E key \in CacheKeys : \E data \in CacheValues : \E ttl \in CacheTtls :
       CacheSet(key, data, ttl)
  \/ \E key \in CacheKeys : CacheRemove(key)
  \/ CacheClear

SpecCache == Init /\ [][NextCache]_vars

----------------------------------------------------------------------------
(* The session specification: a fresh install (no row for this device);     *)
(* both useUserManager instances mount, initialize and refresh, a minute    *)
(* apart or at the same clock reading                                       *)

\* clock steps the session specification takes: before each the first
\* cached user is still fresh, after the second it has expired
MaxSessionTicks == 2
SessionTick == 90 * 1000

FreshStores ==
  { [users |-> << >>, penalties |-> << >>],
    [users |-> << [device_name |-> DeviceB, penalty_count |-> 1,
                   is_online |-> FALSE, last_seen |-> StartTime] >>,
     penalties |-> << [user_id |-> 1, penalty_date |-> Yesterday,
                       removed_by |-> Null, removed_at |-> Null, created_at |-> 1] >>] }

InitFresh(store, pr) ==
  /\ now = StartTime
  /\ users = store.users
  /\ penalties = store.penalties
  /\ user_activity = << >>
  /\ cache = [o \in CacheOwners |-> << >>]
  /\ deviceName = [m \in Managers |-> UnknownDevice]
  /\ currentUser = [m \in Managers |-> NullData]
  /\ loading = [m \in Managers |-> TRUE]
  /\ mgr = [m \in Managers |-> MgrIdle]
  /\ lastPingRef = 0
  /\ pingIntervalRef = FALSE
  /\ penaltyCheckRef = FALSE
  /\ probe = ProbeIdle
  /\ ap = [c \in Callers |-> ApIdle]
  /\ roster = << >>
  /\ red = RedIdle
  /\ increments = << >>
  /\ run = RunIdle
  /\ lastCall = NoCall
  /\ written = << >>
  /\ subscriptionsRef = [l \in Managers |-> {}]
  /\ channels = {}
  /\ props = pr
  /\ setups = [l \in Managers |-> 0]
  /\ verses = << >>
  /\ hasSubmittedToday = FALSE
  /\ verseOp = VerseIdle
  /\ showUserModal = FALSE
  /\ isMountedRef = TRUE
  /\ earlier = << >>
  /\ statusOp = [m \in Managers |-> StatusIdle]
  /\ intervals = [ping |-> 1, penaltyCheck |-> 1]

InitSession == \E store \in FreshStores : InitFresh(store, [l \in Managers |-> AppProps(l)])

NextSession ==
  \/ Tick(SessionTick, StartTime + MaxSessionTicks * SessionTick)
  \/ \E m \in Managers : GetDeviceName(m)
  \/ \E m \in Managers : InitializeUser(m)
  \/ \E m \in Managers : RefreshUser(m)
  \/ \E m \in Managers : InitFetch(m)
  \/ \E m \in Managers : InitUpdate(m)
  \/ \E m \in Managers : InitInsert(m)

SpecSession == InitSession /\ [][NextSession]_vars

----------------------------------------------------------------------------
(* The monitor specification: the started monitoring system around the     *)
(* start of the window, remote operations failing or throwing at any step  *)

\* 15-second clock steps the monitor specification takes
MaxMonitorTicks == 1

InitMonitor ==
  \E store \in InitialStores :
    /\ store.penalties = << >>
    /\ InitResolved(store, StartTime)

NextMonitor ==
  \/ Tick(MinPingGap, StartTime + MaxMonitorTicks * MinPingGap)
  \/ PingServer
  \/ PingNetInfo
  \/ PingSelect
  \/ PingActivity
  \/ PingStatus
  \/ PingAddPenaltyReturn
  \/ PingOffline
  \/ PingThrows
  \/ PenaltyCheckTimer
  \/ \E c \in Callers : AddPenaltySelect(c)
  \/ \E c \in Callers : AddPenaltyInsert(c)
  \/ \E c \in Callers : AddPenaltyUpdate(c)
  \/ InitFetch(HomeScreen)
  \/ InitUpdate(HomeScreen)

SpecMonitor == InitMonitor /\ [][NextMonitor]_vars

----------------------------------------------------------------------------
(* The life-cycle specification: the monitoring system is stopped and      *)
(* started again (the app goes to the background and comes back) around    *)
(* the start of the window; every store operation of a tick succeeds       *)

\* 15-second clock steps the life-cycle specification takes
MaxLifecycleTicks == 1

NextLifecycle ==
  \/ Tick(MinPingGap, StartTime + MaxLifecycleTicks * MinPingGap)
  \/ PingServer
  \/ StartMonitoring
  \/ StopMonitoring
  \/ PingNetInfo
  \/ PingSelectReturns(FALSE)
  \/ PingActivityReturns(FALSE)
  \/ PingStatusReturns(FALSE)
  \/ PingAddPenaltyReturn
  \/ PingOfflineReturns(FALSE)
  \/ PenaltyCheckTimer
  \/ \E c \in Callers : AddPenaltySelectReturns(c, FALSE)
  \/ \E c \in Callers : AddPenaltyInsertReturns(c, FALSE)
  \/ \E c \in Callers : AddPenaltyUpdateReturns(c, FALSE)
  \/ InitFetch(HomeScreen)
  \/ InitUpdate(HomeScreen)

SpecLifecycle == InitMonitor /\ [][NextLifecycle]_vars

----------------------------------------------------------------------------
(* The roster specification: inside the window the re-check timer adds      *)
(* penalties while the SettingsScreen shows, re-loads and hides its roster  *)

NextRoster ==
  \/ PenaltyCheckTimer
  \/ AddPenaltySelect("penaltyCheck")
  \/ AddPenaltyInsert("penaltyCheck")
  \/ AddPenaltyUpdate("penaltyCheck")
  \/ LoadUsers
  \/ CloseUserModal
  \/ UsersListNotified

SpecRoster == InitSettings /\ [][NextRoster]_vars

----------------------------------------------------------------------------
(* The verse specification: the HomeScreen in the last seconds before the   *)
(* 22:30 cut-off: it checks and submits, other devices submit, verses       *)
(* change notifications arrive                                              *)

\* cap on the clock steps of the verse specification
MaxVerseTicks == 1

NextVerse ==
  \/ Tick(MinPingGap, StartTime + MaxVerseTicks * MinPingGap)
  \/ CheckTodaySubmission
  \/ OnVerseUpdate
  \/ CheckSelect
  \/ SubmitVerse
  \/ SubmitVerseInsert
  \/ \E u \in UserIds : VerseInserted(u)

SpecVerse == InitMonitor /\ [][NextVerse]_vars

----------------------------------------------------------------------------
(* The probe specification: the ticks of the ping timer alone, around the   *)
(* start of the window; every store call may fail                           *)

\* 15-second clock steps the probe specification takes
MaxProbeTicks == 1

NextProbe ==
  \/ Tick(MinPingGap, StartTime + MaxProbeTicks * MinPingGap)
  \/ PingServer
  \/ PingNetInfo
  \/ PingSelect
  \/ PingActivity
  \/ PingStatus
  \/ PingAddPenaltyReturn
  \/ PingOffline
  \/ AddPenaltySelect("pingServer")
  \/ AddPenaltyInsert("pingServer")
  \/ AddPenaltyUpdate("pingServer")
  \/ InitFetch(HomeScreen)
  \/ InitUpdate(HomeScreen)

SpecProbe == InitMonitor /\ [][NextProbe]_vars

----------------------------------------------------------------------------
(* The re-check specification: the monitor runs across the start of the     *)
(* window; the existence read of every probe fails, the store operations of *)
(* addPenalty succeed.  Timers that are armed fire and store calls return:  *)
(* the fair specification.                                                  *)

\* 15-second clock steps the re-check specification takes
MaxRecheckTicks == 2

NextRecheck ==
  \/ Tick(MinPingGap, StartTime + MaxRecheckTicks * MinPingGap)
  \/ PingServer
  \/ PingNetInfo
  \/ PingSelectReturns(TRUE)
  \/ PingActivity
  \/ PingStatus
  \/ PingOffline
  \/ PenaltyCheckTimer
  \/ AddPenaltySelectReturns("penaltyCheck", FALSE)
  \/ AddPenaltyInsertReturns("penaltyCheck", FALSE)
  \/ AddPenaltyUpdateReturns("penaltyCheck", FALSE)
  \/ InitFetch(HomeScreen)
  \/ InitUpdate(HomeScreen)

SpecRecheck == InitMonitor /\ [][NextRecheck]_vars

SpecRecheckFair ==
  /\ SpecRecheck
  /\ WF_vars(PenaltyCheckTimer)
  /\ WF_vars(AddPenaltySelectReturns("penaltyCheck", FALSE))
  /\ WF_vars(AddPenaltyInsertReturns("penaltyCheck", FALSE))
  /\ WF_vars(AddPenaltyUpdateReturns("penaltyCheck", FALSE))

----------------------------------------------------------------------------
(* The restart specification: inside the window the currentUser of the      *)
(* monitor changes, or its component unmounts, while addPenalty calls of    *)
(* the re-check timer are in flight                                         *)

\* 15-second clock steps the restart specification takes
MaxRestartTicks == 1

NextRestart ==
  \/ Tick(MinPingGap, StartTime + MaxRestartTicks * MinPingGap)
  \/ PenaltyCheckTimer
  \/ AddPenaltySelectReturns("penaltyCheck", FALSE)
  \/ AddPenaltyInsertReturns("penaltyCheck", FALSE)
  \/ AddPenaltyUpdateReturns("penaltyCheck", FALSE)
  \/ \E u \in UserIds : RestartMonitoring(u)
  \/ UnmountMonitoring
  \/ PingNetInfo
  \/ PingOfflineReturns(FALSE)
  \/ InitFetch(HomeScreen)
  \/ InitUpdate(HomeScreen)

SpecRestart == InitMonitor /\ [][NextRestart]_vars

----------------------------------------------------------------------------
(* The status specification: a fresh install on which the screens call      *)
(* updateUserStatus before and after their user is resolved                 *)

\* 90-second clock steps the status specification takes
MaxStatusTicks == 1

NextStatus ==
  \/ Tick(SessionTick, StartTime + MaxStatusTicks * SessionTick)
  \/ \E m \in Managers : GetDeviceName(m)
  \/ \E m \in Managers : InitFetch(m)
  \/ \E m \in Managers : InitUpdate(m)
  \/ \E m \in Managers : InitInsert(m)
  \/ \E m \in Managers : \E isOnline \in BOOLEAN : UpdateUserStatus(m, isOnline)
  \/ \E m \in Managers : UpdateUserStatusUpdate(m)

SpecStatus == InitSession /\ [][NextStatus]_vars

----------------------------------------------------------------------------
(* The overlap specification: the remote calls of a tick may take longer    *)
(* than the 30 s between two firings of the ping timer                      *)

NextOverlap ==
  \/ Tick(MinPingGap, StartTime + MaxOverlapTicks * MinPingGap)
  \/ PingServer
  \/ PingServerOverlaps
  \/ SwitchTick
  \/ PingNetInfo
  \/ PingSelect
  \/ PingActivity
  \/ PingStatus
  \/ PingAddPenaltyReturn
  \/ PingOffline
  \/ AddPenaltySelect("pingServer")
  \/ AddPenaltyInsert("pingServer")
  \/ AddPenaltyUpdate("pingServer")
  \/ InitFetch(HomeScreen)
  \/ InitUpdate(HomeScreen)

SpecOverlap == InitMonitor /\ [][NextOverlap]_vars

----------------------------------------------------------------------------
(* The listener specification: a fresh install; both screens mount their    *)
(* useRealtimeUpdates (with the callbacks the app passes, or with all       *)
(* three), the user is resolved, the effects re-run, change events arrive   *)

InitListener ==
  \E store \in FreshStores :
    \E pr \in {[l \in Managers |-> AppProps(l)], [l \in Managers |-> AllProps]} :
      InitFresh(store, pr)

NextListener ==
  \/ \E m \in Managers : GetDeviceName(m)
  \/ \E m \in Managers : InitFetch(m)
  \/ \E m \in Managers : InitUpdate(m)
  \/ \E m \in Managers : InitInsert(m)
  \/ \E l \in Managers : RunEffect(l)
  \/ UserEvent
  \/ VerseEvent
  \/ PenaltyEvent

SpecListener == InitListener /\ [][NextListener]_vars

----------------------------------------------------------------------------
(* The timer specification: the app goes to the background and comes back, *)
(* the participant given to the hook changes, the component unmounts; the   *)
(* timers fire in between                                                   *)

\* 15-second clock steps the timer specification takes
MaxTimerTicks == 1

NextTimers ==
  \/ Tick(MinPingGap, StartTime + MaxTimerTicks * MinPingGap)
  \/ PingServer
  \/ StartMonitoring
  \/ StopMonitoring
  \/ \E u \in UserIds : RestartMonitoring(u)
  \/ UnmountMonitoring
  \/ PingNetInfo
  \/ PingOfflineReturns(FALSE)
  \/ PenaltyCheckTimer
  \/ AddPenaltySelectReturns("penaltyCheck", FALSE)

SpecTimers == InitMonitor /\ [][NextTimers]_vars

----------------------------------------------------------------------------
(* The reduction specification: participant 1 enters with two active       *)
(* penalties (of the last two nights) and penalty_count 2; the roster is    *)
(* loaded and reductions are made from the SettingsScreen, every write of   *)
(* a reduction succeeding; no penalty is applied meanwhile                   *)

\* 15-second clock steps the reduction specification takes
MaxReduceTicks == 1

ReduceStore ==
  [users |-> << [device_name |-> DeviceA, penalty_count |-> 2,
                 is_online |-> TRUE, last_seen |-> StartTime],
                [device_name |-> DeviceB, penalty_count |-> 1,
                 is_online |-> FALSE, last_seen |-> StartTime] >>,
   penalties |-> << [user_id |-> 1, penalty_date |-> Yesterday - 1,
                     removed_by |-> Null, removed_at |-> Null, created_at |-> 1],
                    [user_id |-> 1, penalty_date |-> Yesterday,
                     removed_by |-> Null, removed_at |-> Null, created_at |-> 2],
                    [user_id |-> 2, penalty_date |-> Yesterday,
                     removed_by |-> Null, removed_at |-> Null, created_at |-> 3] >>]

InitReduce == InitResolved(ReduceStore, StartTime)

NextReduce ==
  \/ Tick(MinPingGap, StartTime + MaxReduceTicks * MinPingGap)
  \/ LoadUsers
  \/ \E u \in UserIds : ReducePenalty(u)
  \/ ReduceAnswer
  \/ ReduceFind
  \/ ReduceMark /\ red'.pc = "count"
  \/ ReduceCount /\ red'.alert = "Success"
  \/ InitFetch(SettingsScreen)
  \/ InitUpdate(SettingsScreen)

SpecReduce == InitReduce /\ [][NextReduce]_vars

----------------------------------------------------------------------------
(* The guard specification: addPenalty is invoked, and the timers fire, at  *)
(* every minute of the day with the participant resolved,                   *)
(* and around 22:30 on a fresh install whose participant is not resolved     *)

\* 15-second clock steps the guard specification takes (fresh install only)
MaxGuardTicks == 1

\* Minutes after 22:30: every minute of a day (22:30 is 0, 05:30 is 420,
\* 22:29 is 1439)
GuardMinutes == 0 .. (MinutesPerDay - 1)

\* 22:30:00 local time and the instants GuardMinutes after it
GuardTimes == { StartTime + MinPingGap + m * MsPerMinute : m \in GuardMinutes }

InitGuard ==
  \/ \E store \in InitialStores : \E t \in GuardTimes :
       /\ store.penalties = << >>
       /\ InitResolved(store, t)
  \/ InitSession

NextGuard ==
  \/ Tick(MinPingGap, StartTime + MaxGuardTicks * MinPingGap)
  \/ \E c \in Callers : CallAddPenalty(c)
  \/ PenaltyCheckTimer
  \/ PingServer
  \/ PingNetInfo
  \/ PingSelectReturns(FALSE)
  \/ PingStatusReturns(FALSE)
  \/ PingAddPenaltyReturn
  \/ PingOfflineReturns(FALSE)
  \/ \E c \in Callers : AddPenaltySelectReturns(c, FALSE)
  \/ \E c \in Callers : AddPenaltyInsertReturns(c, FALSE)
  \/ \E c \in Callers : AddPenaltyUpdateReturns(c, FALSE)

SpecGuard == InitGuard /\ [][NextGuard]_vars

----------------------------------------------------------------------------
(* Penalty records per participant and day *)

PenaltiesOn(uid, date) ==
  {p \in PenaltyIds : penalties[p].user_id = uid /\ penalties[p].penalty_date = date}

PenaltyDates == {penalties[p].penalty_date : p \in PenaltyIds}

\* C1: for each participant and calendar date the store holds at most one
\* PenaltyRecord whose reducer is null, under every interleaving of the probe
\* tick's addPenalty and the re-check timer's addPenalty.
C1_AtMostOneActivePerDay ==
  \A u \in UserIds : \A d \in PenaltyDates :
    Cardinality(ActivePenaltiesOn(u, d)) <= 1

\* C3: an automatic penalty is applied at most once per participant and
\* calendar date: at most one PenaltyRecord, active or resolved, is ever
\* inserted for a (participant, date), and the counter is incremented at most
\* once for that date.
C3_AtMostOnePenaltyPerDay ==
  /\ \A u \in UserIds : \A d \in PenaltyDates : Cardinality(PenaltiesOn(u, d)) <= 1
  /\ \A k \in DOMAIN increments : increments[k] <= 1

\* C7: reducing a participant whose penalty_count (in the roster row handed to
\* reducePenalty) is 0 is a no-op: no query is issued (the call is over, no
\* dialog opens), no PenaltyRecord or Participant changes.
C7_ReduceAtZeroIsNoOp ==
  [][\A u \in DOMAIN roster :
       (ReducePenalty(u) /\ roster[u] = 0)
         => /\ red'.pc = "idle"
            /\ red'.penalty = Null
            /\ UNCHANGED <<users, penalties>>]_vars

\* C7 witness: reducePenalty was called on a row with no penalties
C7_Witness ==
  /\ red.pc = "idle"
  /\ red.alert = "No Penalties"
  /\ \E u \in DOMAIN roster : roster[u] = 0 /\ users[u].penalty_count = 0

\* C8: a reduction of a participant whose stored penalty_count is k > 0
\* resolves exactly one PenaltyRecord (reducer and reduction timestamp set),
\* the participant's active record created last, leaves every other record
\* unchanged, and leaves the stored penalty_count at k - 1.  Stated for each
\* step of a reduction that found a record.
C8_ReduceResolvesLatestAndDecrements ==
  [][/\ (red.pc = "find" /\ red'.pc = "mark")
          => /\ red'.penalty \in ActivePenalties(red.user.id)
             /\ \A q \in ActivePenalties(red.user.id) :
                  penalties[q].created_at <= penalties[red'.penalty].created_at
     /\ (red.pc = "mark" /\ red'.pc = "count")
          => /\ penalties'[red.penalty].removed_by # Null
             /\ penalties'[red.penalty].removed_at # Null
             /\ \A p \in PenaltyIds \ {red.penalty} : penalties'[p] = penalties[p]
     /\ (red.pc = "count" /\ red'.alert = "Success")
          => /\ users[red.user.id].penalty_count > 0
             /\ users'[red.user.id].penalty_count
                  = users[red.user.id].penalty_count - 1]_vars

\* C2: starting from a participant with no active PenaltyRecord for today,
\* N >= 1 penalty applications run one after another (each completed before
\* the next, inside the window, every store operation succeeding) leave
\* exactly one active PenaltyRecord for (participant, today) and a stored
\* penalty_count exactly 1 higher than at the start.
C2_SerialApplicationsAddOne ==
  (run.active /\ ~run.pending /\ run.calls >= 1)
    => /\ Cardinality(ActivePenaltiesOn(currentUser[HomeScreen].id, run.today)) = 1
       /\ users[currentUser[HomeScreen].id].penalty_count = run.base + 1

----------------------------------------------------------------------------
(* The penalty window *)

LocalMinuteOfDay(t) == ((t + TzOffset) % MsPerDay) \div MsPerMinute

\* C4: for every minute-of-day m in 0..1439, isInPenaltyPeriod is true iff
\* m >= 1350 or m <= 330; it is true at 1350 and 330, false at 1349 and 331.
C4_WindowIffMinuteOfDay ==
  lastCall.op = "isInPenaltyPeriod"
    => /\ lastCall.result = (LocalMinuteOfDay(now) >= 1350 \/ LocalMinuteOfDay(now) <= 330)
       /\ LocalMinuteOfDay(now) \in {1350, 330} => lastCall.result
       /\ LocalMinuteOfDay(now) \in {1349, 331} => ~lastCall.result

C4_Witness ==
  /\ lastCall.op = "isInPenaltyPeriod"
  /\ LocalMinuteOfDay(now) = 1350
  /\ lastCall.result

----------------------------------------------------------------------------
(* The TTL cache *)

\* C5: get(k) at the clock reading of set(k, v, ttl) returns v; get(k) never
\* returns a value written more than its ttl ago: once more than ttl has
\* passed since the write, get(k) returns null and the entry is removed.
C5_GetReturnsFreshOrEvicts ==
  [][\A k \in CacheKeys :
       CacheGet(k) =>
         /\ (k \in DOMAIN written /\ written[k].at = now)
              => lastCall'.data = written[k].data
         /\ (k \in DOMAIN written /\ now - written[k].at > written[k].ttl)
              => /\ lastCall'.data = NullData
                 /\ k \notin DOMAIN cache'[SettingsCache]
         /\ lastCall'.data # NullData
              => /\ k \in DOMAIN written
                 /\ lastCall'.data = written[k].data
                 /\ now - written[k].at <= written[k].ttl]_vars

C5_Witness ==
  /\ lastCall.op = "get"
  /\ lastCall.data = NullData
  /\ lastCall.key \in DOMAIN written
  /\ now - written[lastCall.key].at > written[lastCall.key].ttl
  /\ lastCall.key \notin DOMAIN cache[SettingsCache]

\* C6: set(k, v2, ttl2) on a key that holds an entry replaces value and ttl
\* and resets the timestamp to now; the following get(k) returns v2 until
\* ttl2 has passed since the second set, whatever the first entry was.
C6_SetOverwrites ==
  [][\A k \in CacheKeys :
       /\ \A v \in CacheValues : \A ttl \in CacheTtls :
            (CacheSet(k, v, ttl) /\ k \in DOMAIN cache[SettingsCache])
              => cache'[SettingsCache][k] = [data |-> v, timestamp |-> now, ttl |-> ttl]
       /\ (CacheGet(k) /\ lastCall.op = "set" /\ lastCall.key = k /\ written[k].replaced)
            => lastCall'.data = IF now - written[k].at <= written[k].ttl
                                  THEN lastCall.data
                                  ELSE NullData]_vars

C6_Witness ==
  /\ lastCall.op = "get"
  /\ lastCall.key \in DOMAIN written
  /\ written[lastCall.key].replaced
  /\ now > written[lastCall.key].at
  /\ lastCall.data = written[lastCall.key].data

----------------------------------------------------------------------------
(* Session resolution *)

\* C9: initializeUser for a device name no users row carries inserts one
\* row with is_online = true and penalty_count = 0 and caches it under
\* user_<deviceName> with a ttl of 2 minutes.
C9_InitializeCreatesAndCaches ==
  [][\A m \in Managers :
       /\ (InitFetch(m) /\ UsersNamed(deviceName[m]) = {} /\ mgr'[m].pc # "idle")
            => mgr'[m].pc = "insert"
       /\ (InitInsert(m) /\ users' # users)
            => /\ UsersNamed(deviceName[m]) = {}
               /\ Len(users') = Len(users) + 1
               /\ \A u \in UserIds : users'[u] = users[u]
               /\ users'[Len(users')].device_name = deviceName[m]
               /\ users'[Len(users')].is_online = TRUE
               /\ users'[Len(users')].penalty_count = 0
               /\ LET item == cache'[UserCache(m)][UserKey(deviceName[m])]
                  IN  /\ item.ttl = 2 * 60 * 1000
                      /\ item.timestamp = now
                      /\ item.data.id = Len(users')
                      /\ item.data.is_online = TRUE
                      /\ item.data.penalty_count = 0
                      /\ currentUser'[m] = item.data]_vars

C9_Witness ==
  \E m \in Managers :
    /\ mgr[m].pc = "idle"
    /\ Cardinality(UsersNamed(DeviceA)) = 1
    /\ UserKey(DeviceA) \in DOMAIN cache[UserCache(m)]
    /\ LET item == cache[UserCache(m)][UserKey(DeviceA)]
       IN  /\ item.data # NullData
           /\ item.data.id \in UsersNamed(DeviceA)
           /\ item.ttl = UserTtl
           /\ currentUser[m] = item.data

\* C10: initializeUser called less than 2 minutes after an initializeUser of
\* the same hook instance cached the user returns that cached user and
\* issues no store read and no store write.
C10_SecondInitializeServedFromCache ==
  [][\A m \in Managers :
       LET c == cache[UserCache(m)]
           key == UserKey(deviceName[m])
       IN  (/\ InitializeUser(m)
            /\ key \in DOMAIN c
            /\ c[key].data # NullData
            /\ now - c[key].timestamp < 2 * 60 * 1000)
             => /\ currentUser'[m] = c[key].data
                /\ loading'[m] = FALSE
                /\ mgr'[m].pc = "idle"
                /\ UNCHANGED <<users, penalties, user_activity>>]_vars

C10_Witness ==
  /\ lastCall.op = "initializeUser"
  /\ lastCall.cached
  /\ mgr[lastCall.m].pc = "idle"
  /\ UserKey(DeviceA) \in DOMAIN cache[UserCache(lastCall.m)]
  /\ LET item == cache[UserCache(lastCall.m)][UserKey(DeviceA)]
     IN  /\ now > item.timestamp
         /\ now - item.timestamp < UserTtl
         /\ currentUser[lastCall.m] = item.data

----------------------------------------------------------------------------
(* The probe tick *)

\* C11: a probe tick inside the window, with the network reachable, the
\* existence read succeeding within 1000 ms and every store operation
\* succeeding, appends no user_activity row and ends with is_online = true
\* and exactly one active penalty for (user, today).
C11_ProbeInWindowAddsOnePenalty ==
  [][/\ (PingSelectReturns(FALSE) /\ now - probe.startTime <= 1000)
          => (probe'.pc = "status" /\ UNCHANGED user_activity)
     /\ (PingAddPenaltyReturn /\ probe.responseTime <= 1000)
          => /\ users'[probe.user.id].is_online = TRUE
             /\ Cardinality(ActivePenaltiesOn(probe.user.id, toISODate(now))) = 1]_vars

\* C12: a probe tick that finds the network unreachable writes
\* is_online = false and last_seen = now and nothing else: no user_activity
\* row, no addPenalty call, no penalty row, even inside the window.
C12_UnreachableOnlyWritesOffline ==
  [][/\ (PingNetInfo /\ probe'.pc # "select")
          => /\ probe'.pc = "offline"
             /\ UNCHANGED <<users, penalties, user_activity, ap, increments>>
     /\ (probe.pc = "offline" /\ probe' # probe)
          => /\ probe' = ProbeIdle
             /\ users' = [users EXCEPT ![probe.user.id].is_online = FALSE,
                                       ![probe.user.id].last_seen = now]
             /\ UNCHANGED <<penalties, user_activity, ap, increments>>]_vars

C12_Witness ==
  /\ lastCall = [op |-> "pingServer", outcome |-> "offline"]
  /\ isInPenaltyPeriod(now)
  /\ probe = ProbeIdle
  /\ users[1].is_online = FALSE
  /\ users[1].last_seen = now
  /\ penalties = << >>
  /\ user_activity = << >>

\* C13: a remote operation that returns an error or throws, at any step of
\* a probe tick or of addPenalty, never escapes: the tick or the call ends
\* (or goes on as the code says), both timers stay armed, and the next
\* firing of a timer starts a new tick.
C13_FailuresStayInsideTheTick ==
  [][/\ pingIntervalRef' /\ penaltyCheckRef'
     /\ PingThrows => probe' = ProbeIdle
     /\ PingSelectReturns(TRUE) => (probe'.pc = "activity" /\ probe'.error)
     /\ (PingActivityReturns(TRUE) \/ PingStatusReturns(TRUE) \/ PingOfflineReturns(TRUE))
          => probe'.pc \in {"idle", "status", "addPenalty"}
     /\ \A c \in Callers :
          (\/ AddPenaltySelectReturns(c, TRUE)
           \/ AddPenaltyInsertReturns(c, TRUE)
           \/ AddPenaltyUpdateReturns(c, TRUE)) => ap'[c] = ApIdle
     /\ (PingServer /\ now - lastPingRef >= MinPingGap) => probe'.pc = "netinfo"
     /\ (PenaltyCheckTimer /\ isInPenaltyPeriod(now)) => ap'["penaltyCheck"].pc = "select"]_vars

C13_Witness ==
  /\ lastCall = [op |-> "pingServer", outcome |-> "caught"]
  /\ pingIntervalRef /\ penaltyCheckRef
  /\ probe.pc = "netinfo"
  /\ probe.startTime > StartTime

\* C14: stopMonitoring cancels both timers, and while the monitor is stopped
\* no user_activity row, no penalty insert and no penalty_count write
\* reaches the store.
C14_NoWorkWhileStopped ==
  [][/\ StopMonitoring => (~pingIntervalRef' /\ ~penaltyCheckRef')
     /\ (~pingIntervalRef /\ ~penaltyCheckRef /\ ~pingIntervalRef' /\ ~penaltyCheckRef')
          => /\ user_activity' = user_activity
             /\ penalties' = penalties
             /\ \A u \in UserIds :
                  users'[u].penalty_count = users[u].penalty_count]_vars

\* C20: a pingServer call made less than 15 s after the last accepted one
\* does no reachability check and no store operation; two probes that reach
\* NetInfo.fetch start at least 15 s apart, the immediate probe of
\* startMonitoring included.
C20_ProbesDebounced ==
  [][/\ (probe.pc = "idle" /\ probe'.pc = "netinfo")
          => /\ now - lastPingRef >= MinPingGap
             /\ lastPingRef' = now
             /\ probe'.startTime = now
     /\ ((PingServer \/ StartMonitoring) /\ now - lastPingRef < MinPingGap)
          => UNCHANGED <<probe, lastPingRef, users, penalties, user_activity, ap>>
     /\ probe'.pc # "idle" => probe'.startTime = lastPingRef']_vars

C20_Witness ==
  /\ lastCall = Debounced
  /\ pingIntervalRef
  /\ lastPingRef > 0
  /\ now - lastPingRef < MinPingGap
  /\ probe.pc = "idle"

\* C15: every subscription a listener created in an earlier run of its effect
\* is unsubscribed when the subscriptions are re-established: a listener
\* holds at most one live subscription per table, all of its latest run, and
\* a change event calls no callback of a listener twice.
C15_OneLiveSubscriptionPerChannel ==
  /\ \A sub \in channels :
       /\ sub.setup = setups[sub.listener]
       /\ sub \in subscriptionsRef[sub.listener]
  /\ \A l \in Managers : \A t \in Tables : Cardinality(LiveSubs(l, t)) <= 1
  /\ lastCall.op = "event" =>
       \A l \in Managers :
         \A i, j \in 1..Len(lastCall.calls[l]) :
           lastCall.calls[l][i].cb = lastCall.calls[l][j].cb => i = j

C15_Witness ==
  /\ lastCall.op = "event"
  /\ \E l \in Managers :
       /\ setups[l] = MaxSetups
       /\ props[l] = AllProps
       /\ Len(lastCall.calls[l]) = 2
       /\ \A t \in Tables : Cardinality(LiveSubs(l, t)) = 1

CallsTo(calls, cb) == {i \in 1..Len(calls) : calls[i].cb = cb}

\* C16: on a users event a listener calls onUsersListUpdate for every INSERT
\* and every UPDATE, and calls onUserUpdate, with the event's new record,
\* exactly when the event is an UPDATE of the participant the listener has
\* resolved; a callback the consumer did not pass is not called.
C16_UserEventCallbacks ==
  [][\A eventType \in EventTypes : \A u \in UserIds :
       LET new == IF eventType = "DELETE" THEN NullData ELSE Payload(u)
       IN  ChangeEvent("users", eventType, new) =>
             \A l \in Managers : \A sub \in LiveSubs(l, "users") :
               LET calls == lastCall'.calls[l]
                   own == /\ eventType = "UPDATE"
                          /\ sub.currentUser # NullData
                          /\ sub.currentUser.id = u
               IN  /\ (CallsTo(calls, "onUsersListUpdate") # {})
                        <=> (/\ "onUsersListUpdate" \in sub.props
                             /\ eventType \in {"INSERT", "UPDATE"})
                   /\ (CallsTo(calls, "onUserUpdate") # {})
                        <=> ("onUserUpdate" \in sub.props /\ own)
                   /\ \A i \in CallsTo(calls, "onUserUpdate") :
                        calls[i].arg = new
                   /\ CallsTo(calls, "onVerseUpdate") = {}]_vars

C16_Witness ==
  /\ lastCall.op = "event"
  /\ lastCall.table = "users"
  /\ lastCall.eventType = "UPDATE"
  /\ \E l \in Managers :
       /\ currentUser[l] # NullData
       /\ lastCall.new.id = currentUser[l].id
       /\ lastCall.calls[l] = << [cb |-> "onUserUpdate", arg |-> lastCall.new],
                                 [cb |-> "onUsersListUpdate", arg |-> NullData] >>

\* C17: on every penalties event a listener calls onUsersListUpdate and, if
\* and only if it had a resolved participant when the subscriptions were set
\* up, onUserUpdate with a copy of that participant.
C17_PenaltyEventCallbacks ==
  [][\A eventType \in EventTypes :
       ChangeEvent("penalties", eventType, NullData) =>
         \A l \in Managers : \A sub \in LiveSubs(l, "penalties") :
           LET calls == lastCall'.calls[l]
           IN  /\ (CallsTo(calls, "onUsersListUpdate") # {})
                    <=> ("onUsersListUpdate" \in sub.props)
               /\ (CallsTo(calls, "onUserUpdate") # {})
                    <=> ("onUserUpdate" \in sub.props /\ sub.currentUser # NullData)
               /\ \A i \in CallsTo(calls, "onUserUpdate") :
                    calls[i].arg = sub.currentUser
               /\ CallsTo(calls, "onVerseUpdate") = {}]_vars

C17_Witness ==
  /\ lastCall.op = "event"
  /\ lastCall.table = "penalties"
  /\ \E l \in Managers :
       /\ currentUser[l] # NullData
       /\ lastCall.calls[l] = << [cb |-> "onUsersListUpdate", arg |-> NullData],
                                 [cb |-> "onUserUpdate", arg |-> currentUser[l]] >>

\* C18: when the onUsersListUpdate callback of the SettingsScreen has run
\* with the roster shown (and the store read, if one is made, succeeds), the
\* roster shown is the store's current participant list.
C18_RosterRefetchedOnNotification ==
  [][OnUsersListUpdate(FALSE) => roster' = UsersData(users)]_vars

\* C19: when a checkTodaySubmission started by the onVerseUpdate callback has
\* finished (from the cache, or by a query that succeeded) and the store
\* holds a verse of the local participant for today, hasSubmittedToday is
\* true.
C19_SubmittedRederivedOnNotification ==
  [][LET done == \/ OnVerseUpdate /\ verseOp'.check = "idle"
                 \/ CheckSelectReturns(FALSE) /\ verseOp.by = "onVerseUpdate"
     IN  (/\ done
          /\ currentUser[HomeScreen] # NullData
          /\ VersesOn(currentUser[HomeScreen].id, toISODate(now)) # {})
           => hasSubmittedToday']_vars

\* C21: at most one pingServer tick is in flight at any time.
C21_OneTickInFlight ==
  Len(earlier) + (IF probe.pc = "idle" THEN 0 ELSE 1) <= 1

\* C22: in a tick with the network reachable the user_activity insert is
\* issued if and only if the existence read failed or took more than 1000 ms;
\* the row appended carries is_online = "the read succeeded", and no other
\* step of the monitor appends a row.
C22_ActivityLoggedOnErrorOrSlow ==
  [][/\ \A failed \in BOOLEAN :
          PingSelectReturns(failed) =>
            /\ probe'.pc \in {"activity", "status"}
            /\ probe'.pc = "activity" <=> (failed \/ now - probe.startTime > 1000)
     /\ PingActivityReturns(FALSE) =>
          /\ Len(user_activity') = Len(user_activity) + 1
          /\ user_activity'[Len(user_activity')].user_id = probe.user.id
          /\ user_activity'[Len(user_activity')].is_online = ~probe.error
          /\ SubSeq(user_activity', 1, Len(user_activity)) = user_activity
     /\ user_activity' # user_activity => probe.pc = "activity"]_vars

C22_Witness ==
  /\ Len(user_activity) = 1
  /\ user_activity[1].is_online
  /\ user_activity[1].response_time > 1000
  /\ user_activity[1].user_id = 1
  /\ probe.pc = "status"
  /\ ~probe.error

C24_RecheckEventuallyPenalises ==
  (/\ isInPenaltyPeriod(now)
   /\ penaltyCheckRef
   /\ currentUser[HomeScreen] # NullData)
    ~> (/\ currentUser[HomeScreen] # NullData
        /\ ActivePenaltiesOn(currentUser[HomeScreen].id, toISODate(now)) # {})

C24_Witness ==
  /\ lastCall = [op |-> "pingServer", outcome |-> "error"]
  /\ isInPenaltyPeriod(now)
  /\ ActivePenaltiesOn(currentUser[HomeScreen].id, toISODate(now)) # {}
  /\ ap["pingServer"] = ApIdle
  /\ <<currentUser[HomeScreen].id, toISODate(now)>> \in DOMAIN increments

\* C25: a step of an addPenalty call that was started for another
\* participant than the one the monitor now runs for fires no onPenaltyAdded
\* and leaves the session (cache, currentUser, loading, the initializeUser
\* in flight) as it is.
C25_StaleResultsDiscarded ==
  [][\A c \in Callers :
       (/\ ap[c].pc # "idle"
        /\ ap'[c] # ap[c]
        /\ currentUser[HomeScreen] # NullData
        /\ ap[c].user.id # currentUser[HomeScreen].id)
         => UNCHANGED <<cache, currentUser, loading, mgr>>]_vars

\* C26: when the existence query of addPenalty returns and the store holds
\* one or more active penalties of the participant for the day asked, the
\* call ends there: no insert is issued.
C26_ExistingPenaltyMakesNoOp ==
  [][\A c \in Callers :
       (/\ AddPenaltySelectReturns(c, FALSE)
        /\ ActivePenaltiesOn(ap[c].user.id, ap[c].today) # {})
         => ap'[c] = ApIdle]_vars

\* C27: the counter update of addPenalty leaves the stored penalty_count of
\* the participant exactly one above the value stored just before it.
C27_IncrementFromStoredValue ==
  [][\A c \in Callers :
       AddPenaltyUpdateReturns(c, FALSE) =>
         users'[ap[c].user.id].penalty_count
           = users[ap[c].user.id].penalty_count + 1]_vars

\* C28: when the existence query of addPenalty fails with a store error
\* other than "no rows", the call ends without an insert and without a
\* counter write; the "no rows" answer alone leads to the insert; a new
\* call is only started by a timer-driven tick.
C28_QueryErrorAbandonsTheCall ==
  [][\A c \in Callers :
       /\ AddPenaltySelectReturns(c, TRUE)
            => (ap'[c] = ApIdle /\ UNCHANGED <<penalties, users, increments>>)
       /\ (AddPenaltySelectReturns(c, FALSE) /\ ap'[c].pc = "insert")
            => single(ActivePenaltiesOn(ap[c].user.id, ap[c].today)).error = PGRST116
       /\ (ap[c].pc = "idle" /\ ap'[c].pc # "idle")
            => (probe.pc = "status" \/ PenaltyCheckTimer)]_vars

C28_Witness ==
  /\ probe.pc = "addPenalty"
  /\ ap["pingServer"] = ApIdle
  /\ isInPenaltyPeriod(now)
  /\ penalties = << >>
  /\ increments = << >>
  /\ users[probe.user.id].penalty_count = probe.user.penalty_count

\* C29: refreshUser replaces the cache entry of the device name by a null
\* entry and its initializeUser issues the store read, whatever entry was
\* cached before; the participant shown is replaced only by the row a store
\* call that returned afterwards delivered.
C29_RefreshReadsTheStore ==
  [][\A m \in Managers :
       LET key == UserKey(deviceName[m])
       IN  /\ (RefreshUser(m) /\ deviceName[m] # UnknownDevice)
                => /\ mgr'[m].pc = "fetch"
                   /\ currentUser'[m] = currentUser[m]
                   /\ key \in DOMAIN cache'[UserCache(m)]
                   /\ cache'[UserCache(m)][key].data = NullData
           /\ (mgr[m].pc \in {"fetch", "update", "insert"}
                 /\ currentUser'[m] # currentUser[m])
                => /\ mgr[m].pc # "fetch"
                   /\ currentUser'[m].id \in DOMAIN users'
                   /\ currentUser'[m] = [kind |-> "user", id |-> currentUser'[m].id,
                                         device_name |-> users'[currentUser'[m].id].device_name,
                                         penalty_count |-> users'[currentUser'[m].id].penalty_count,
                                         is_online |-> users'[currentUser'[m].id].is_online,
                                         last_seen |-> users'[currentUser'[m].id].last_seen]]_vars

C29_Witness ==
  \E m \in Managers :
    /\ mgr[m].pc = "fetch"
    /\ currentUser[m] # NullData
    /\ UserKey(deviceName[m]) \in DOMAIN cache[UserCache(m)]
    /\ cache[UserCache(m)][UserKey(deviceName[m])].data = NullData
    /\ cache[UserCache(m)][UserKey(deviceName[m])].ttl = 0
    /\ now - currentUser[m].last_seen < UserTtl

\* C30: updateUserStatus(isOnline) without a resolved user issues nothing;
\* with one, its update changes is_online and last_seen of that user's row
\* alone, and on success the row is cached under the user's device name
\* with a ttl of two minutes; on failure store and cache stay as they are.
C30_UpdateStatusFrame ==
  [][\A m \in Managers :
       /\ \A isOnline \in BOOLEAN :
            UpdateUserStatus(m, isOnline) =>
              /\ UNCHANGED <<users, cache, currentUser>>
              /\ currentUser[m] = NullData => UNCHANGED statusOp
       /\ UpdateUserStatusReturns(m, TRUE) => UNCHANGED <<users, cache, currentUser>>
       /\ UpdateUserStatusReturns(m, FALSE) =>
            LET id == statusOp[m].user.id
                key == UserKey(statusOp[m].user.device_name)
            IN  /\ DOMAIN users' = DOMAIN users
                /\ \A u \in UserIds \ {id} : users'[u] = users[u]
                /\ users'[id].is_online = statusOp[m].isOnline
                /\ users'[id].last_seen = now
                /\ users'[id].device_name = users[id].device_name
                /\ users'[id].penalty_count = users[id].penalty_count
                /\ key \in DOMAIN cache'[UserCache(m)]
                /\ cache'[UserCache(m)][key].ttl = 2 * 60 * 1000
                /\ cache'[UserCache(m)][key].timestamp = now
                /\ cache'[UserCache(m)][key].data = currentUser'[m]
                /\ currentUser'[m].id = id
                /\ currentUser'[m].is_online = users'[id].is_online
                /\ currentUser'[m].penalty_count = users'[id].penalty_count
                /\ \A o \in CacheOwners \ {UserCache(m)} : cache'[o] = cache[o]
                /\ \A k \in DOMAIN cache[UserCache(m)] \ {key} :
                     /\ k \in DOMAIN cache'[UserCache(m)]
                     /\ cache'[UserCache(m)][k] = cache[UserCache(m)][k]]_vars

C30_Witness ==
  /\ lastCall.op = "updateUserStatus"
  /\ lastCall.issued
  /\ ~lastCall.isOnline
  /\ statusOp[lastCall.m] = StatusIdle
  /\ currentUser[lastCall.m] # NullData
  /\ ~currentUser[lastCall.m].is_online
  /\ ~users[currentUser[lastCall.m].id].is_online
  /\ users[currentUser[lastCall.m].id].last_seen = now
  /\ now > StartTime
  /\ cache[UserCache(lastCall.m)][UserKey(DeviceA)].timestamp = now

\* C31: the verses table never holds two submissions of one participant for
\* one calendar date.
C31_AtMostOneVersePerDay ==
  \A v, w \in DOMAIN verses :
    (/\ verses[v].user_id = verses[w].user_id
     /\ verses[v].submitted_date = verses[w].submitted_date) => v = w

\* C32: the stored penalty_count of every participant is never negative.
C32_PenaltyCountNonNegative ==
  \A u \in UserIds : users[u].penalty_count >= 0

\* C32 witness: a reduction has written a counter of 0, and an application
\* has written its increment
C32_Witness ==
  /\ red.alert = "Success"
  /\ \E u \in UserIds :
       /\ users[u].penalty_count = 0
       /\ \E p \in PenaltyIds : penalties[p].user_id = u /\ penalties[p].removed_by # Null
  /\ increments # << >>

\* C33: with a participant resolved, startMonitoring (the effect running for
\* a participant, the app becoming active) leaves one ping interval and one
\* re-check interval armed, stopMonitoring (the app going to the background
\* or inactive, the cleanup of the effect) leaves none armed, and at every
\* moment at most one interval of each kind is armed, the one its ref holds.
C33_MonitorTimers ==
  /\ [](/\ intervals.ping = (IF pingIntervalRef THEN 1 ELSE 0)
        /\ intervals.penaltyCheck = (IF penaltyCheckRef THEN 1 ELSE 0))
  /\ [][/\ (StartMonitoring \/ \E u \in UserIds : RestartMonitoring(u))
             => /\ intervals' = [ping |-> 1, penaltyCheck |-> 1]
                /\ pingIntervalRef' /\ penaltyCheckRef'
        /\ (StopMonitoring \/ UnmountMonitoring)
             => /\ intervals' = [ping |-> 0, penaltyCheck |-> 0]
                /\ ~pingIntervalRef' /\ ~penaltyCheckRef']_vars

\* C33 witness: the monitor was stopped, then started again for another
\* participant, and its first tick runs
C33_Witness ==
  /\ intervals = [ping |-> 1, penaltyCheck |-> 1]
  /\ currentUser[HomeScreen] # NullData
  /\ currentUser[HomeScreen].id = 2
  /\ probe.pc # "idle"
  /\ probe.user.id = 2

\* C34: whenever no addPenalty call and no reduction is in progress, the
\* stored penalty_count of each participant equals the number of its active
\* penalties.
C34_CountMatchesActivePenalties ==
  ((\A c \in Callers : ap[c].pc = "idle") /\ red.pc = "idle")
    => \A u \in UserIds :
         users[u].penalty_count = Cardinality(ActivePenalties(u))

\* C35: with no penalty applied meanwhile and every write of a reduction
\* succeeding, whenever no reduction is in progress the stored penalty_count
\* of each participant is the number of penalties it entered with less the
\* number of its penalties that were resolved.
C35_ReductionsCountDown ==
  red.pc = "idle" =>
    \A u \in UserIds :
      LET all == {p \in PenaltyIds : penalties[p].user_id = u}
          resolved == {p \in all : penalties[p].removed_by # Null}
      IN  users[u].penalty_count = Cardinality(all) - Cardinality(resolved)

\* C36: no two rows of the users table carry the same device_name, and an
\* insert of initializeUser that returns when a row of its device_name
\* exists (another initializeUser found no row either and inserted first)
\* fails: the store is left as it is and the call ends.
C36_OneParticipantPerDevice ==
  /\ [](\A u, v \in UserIds : users[u].device_name = users[v].device_name => u = v)
  /\ [][\A m \in Managers :
          (InitInsert(m) /\ UsersNamed(deviceName[m]) # {})
            => /\ UNCHANGED <<users, penalties, user_activity, verses>>
               /\ mgr'[m] = MgrIdle
               /\ UNCHANGED <<cache, currentUser>>]_vars

\* C36 witness: both hook instances found no row; one has inserted the
\* participant, the insert of the other is still to return
C36_Witness ==
  \E m1, m2 \in Managers :
    /\ m1 # m2
    /\ mgr[m2].pc = "insert"
    /\ mgr[m1].pc = "idle"
    /\ currentUser[m1] # NullData
    /\ currentUser[m1].device_name = deviceName[m2]
    /\ Cardinality(UsersNamed(deviceName[m2])) = 1

\* C37: the lookup of initializeUser writes nothing, and the step that ends
\* an initializeUser call leaves loading false and is either the success
\* (the row the store returned is cached for two minutes and becomes the
\* current participant) or leaves the users table, the cache and the current
\* participant exactly as they were; a failed lookup ends the call, so no
\* insert follows it.
C37_FailedInitializeWritesNothing ==
  [][\A m \in Managers :
       LET key == UserKey(deviceName[m])
           stored == /\ key \in DOMAIN cache'[UserCache(m)]
                     /\ cache'[UserCache(m)][key].timestamp = now
                     /\ cache'[UserCache(m)][key].ttl = UserTtl
                     /\ cache'[UserCache(m)][key].data = currentUser'[m]
                     /\ currentUser'[m] # NullData
                     /\ currentUser'[m].id \in DOMAIN users'
                     /\ users'[currentUser'[m].id].device_name = deviceName[m]
                     /\ users'[currentUser'[m].id].last_seen = now
                     /\ users'[currentUser'[m].id].is_online
       IN  /\ (mgr[m].pc = "fetch" /\ mgr'[m] # mgr[m])
                => UNCHANGED <<users, cache, currentUser>>
           /\ (mgr[m].pc # "idle" /\ mgr'[m].pc = "idle")
                => /\ loading'[m] = FALSE
                   /\ stored \/ UNCHANGED <<users, cache, currentUser>>
           /\ (InitInsert(m) /\ users' # users) => mgr[m].id = Null]_vars

\* C37 witness: an initializeUser call for a resolved device name has ended
\* without a participant: its lookup or its insert failed
C37_Witness ==
  \E m \in Managers :
    /\ deviceName[m] # UnknownDevice
    /\ mgr[m].pc = "idle"
    /\ ~loading[m]
    /\ currentUser[m] = NullData
    /\ UserKey(deviceName[m]) \notin DOMAIN cache[UserCache(m)]

\* C38: the value checkTodaySubmission caches for (participant, date) is
\* what the store holds at that moment: true only if a verse of the
\* participant for the date exists, false only if none exists.
C38_CachedSubmissionMatchesStore ==
  [][(\E failed \in BOOLEAN : CheckSelectReturns(failed)) =>
       LET key == VerseKey(verseOp.user.id, verseOp.today)
       IN  /\ key \in DOMAIN cache'[HomeCache]
           /\ cache'[HomeCache][key].data.v
                = (VersesOn(verseOp.user.id, verseOp.today) # {})]_vars

\* C39: at a minute of the day m with 330 < m < 1350, or with no participant
\* resolved, no step starts an addPenalty call (no existence query is
\* issued), whether addPenalty is invoked directly, by the re-check timer or
\* by a probe tick in flight; and while no call is in progress no penalty is
\* inserted and no penalty_count changes.
C39_NoPenaltyOutsideWindow ==
  [][/\ \A c \in Callers :
          (/\ ap[c].pc = "idle"
           /\ \/ (330 < LocalMinuteOfDay(now) /\ LocalMinuteOfDay(now) < 1350)
              \/ currentUser[HomeScreen] = NullData)
            => ap'[c].pc = "idle"
     /\ (\A c \in Callers : ap[c].pc = "idle")
          => /\ penalties' = penalties
             /\ \A u \in UserIds : users'[u].penalty_count = users[u].penalty_count]_vars

\* C39 witness: addPenalty was invoked at 05:31 with the participant
\* resolved and returned at its guard
C39_Witness ==
  /\ lastCall.op = "addPenalty"
  /\ ~lastCall.issued
  /\ LocalMinuteOfDay(now) = 331
  /\ currentUser[HomeScreen] # NullData
  /\ isMountedRef

=============================================================================
